---- MODULE Spec2Model ----
(***************************************************************************)
(* State-machine model of the chat server of src/src/backend/server.py     *)
(* (class ChatServer).  The server runs on one asyncio event loop: code    *)
(* between two awaits runs without interleaving, so every action below is  *)
(* one such segment of a coroutine, from the point where it resumes to the *)
(* next await at which it suspends.                                        *)
(***************************************************************************)
EXTENDS Naturals, Sequences, FiniteSets, Bags, TLC

(* ----------------------------- bounds ---------------------------------- *)
MaxConn == 2        \* connections accepted in one run
MaxLines == 2       \* text frames received after authentication, in total
MaxClock == 2       \* largest wall-clock reading
MaxDbFail == 1      \* store commits that raise, in total

(* --------------------------- constants --------------------------------- *)
None == 0                        \* Python None for moderator_ws
NoUser == ""                     \* Python None for the local variable username
Main == 0                        \* the task running start() and shutdown()
NoTs == 0                        \* an event without a "timestamp" key
HistoryLimit == 100              \* .limit(100) of send_message_history
Conns == 1..MaxConn              \* websocket objects, in accept order
Tasks == Conns \cup {Main}
moderator_username == "mod"
Users == {"mod", "bob"}          \* rows of the users table

VARIABLES
  lifecycle,        \* "Accepting" | "ShuttingDown" | "Stopped"
  listening,        \* the listening endpoint is bound
  mainpc,           \* position of start(): "wait", "notify", "wait_closed",
                    \* "returned", "raised", "interrupted"
  event,            \* moderator_disconnect_event is set
  clients,          \* self.clients
  online_users,     \* self.online_users, a dict in insertion order
  user_websockets,  \* self.user_websockets
  moderator_ws,     \* self.moderator_ws
  messages,         \* rows of the messages table, a bag
  servers,          \* active flags of the servers rows of this port
  clock,            \* last wall-clock reading
  pc,               \* position of handle_client for each connection
  username,         \* handle_client's local variable username
  alive,            \* the transport of the connection is open
  hist,             \* send_message_history: frames still to send
  pending,          \* notify_all: recipients whose send has not finished
  bframe,           \* notify_all: the message being sent
  ready,            \* the tasks whose gather has sends left, in the order the
                    \* gathers were created (the event loop's ready queue)
  file_transfers,   \* rows of the file_transfers table, a bag
  \* history variables, read by the properties only
  bdone,            \* notify_all: recipients whose send returned
  bfail,            \* notify_all: recipients whose send raised
  overtaken,        \* per gather: the recipients still waiting for its send
                    \* that were written a frame submitted after it, and how
  out,              \* the frames the last step wrote, each with its connection
  act,              \* the frame the last step received, if it received one
  nlines,           \* text frames received so far
  dbFails,          \* commits that raised so far
  triggers,         \* connections whose handler set the event
  shutdownRuns,     \* number of times shutdown() was entered
  shutSnap,         \* self.clients when shutdown() was entered
  shutSent,         \* recipients the shutdown notification was written to
  shutFail,         \* recipients whose shutdown notification send raised
  modClosed,        \* the handler of the moderator session reached finally
  lastClear,        \* the last committed /clear: its clear_point, the rows it deleted
  \* the client processes (src/src/frontend/client.py) and their
  \* EncryptionManager (src/src/utils/encryption.py), one per user
  running,            \* the client process of the user is running
  encryption_enabled, \* self.encryption_enabled
  private_key,        \* self.private_key: the keypair it belongs to, or NoKey
  public_key,         \* self.public_key: the keypair it belongs to, or NoKey
  peer_keys,          \* self.peer_keys
  keys_dir,           \* the files of self.keys_dir
  downloads,          \* the files written to ~/cli_chat_downloads
  generated,          \* number of keypairs generated so far, by all processes
  urandom,            \* the values os.urandom has returned so far
  envelopes,          \* what encrypt_message has returned, in call order
  websocket_sent,     \* the frames the last step sent to the server
  console,            \* what the last step did and printed
  encrypt_typed,      \* history: the users for whom /encrypt was typed in this process
  \* one call of ChatClient.connect (client.py, lines 74-103)
  connect_pc,         \* where connect() is
  websocket,          \* the connection: "none", "open" or "closed"
  receive_task,       \* the task of receive_messages
  send_task,          \* the task of send_messages
  cancel_called,      \* the tasks on which cancel() was called
  displayed,          \* frames the receive loop has displayed
  sent_lines,         \* lines the send loop has sent
  send_errors         \* times the send loop printed "Error sending message"

regVars == <<clients, online_users, user_websockets, moderator_ws>>
sigVars == <<event, triggers, modClosed>>
dbVars == <<messages, clock, dbFails>>
bcVars == <<pending, bframe, bdone, bfail, ready, overtaken>>
locVars == <<pc, username, alive, hist>>
mainVars == <<lifecycle, listening, mainpc, servers, shutdownRuns, shutSnap, shutSent, shutFail>>
conVars == <<connect_pc, websocket, receive_task, send_task, cancel_called,
             displayed, sent_lines, send_errors>>
engVars == <<running, encryption_enabled, private_key, public_key, peer_keys, keys_dir,
             downloads, generated, urandom, envelopes, websocket_sent, console, encrypt_typed>>
cliVars == <<engVars, conVars>>
vars == <<lifecycle, listening, mainpc, event, clients, online_users,
          user_websockets, moderator_ws, messages, servers, clock,
          pc, username, alive, hist, pending, bframe, bdone, bfail, out,
          act, nlines, dbFails, triggers, shutdownRuns, shutSnap, shutSent,
          shutFail, modClosed, lastClear, ready, overtaken, file_transfers, cliVars>>
svrVars == <<lifecycle, listening, mainpc, event, clients, online_users,
             user_websockets, moderator_ws, messages, servers, clock,
             pc, username, alive, hist, pending, bframe, bdone, bfail, out,
             act, nlines, dbFails, triggers, shutdownRuns, shutSnap, shutSent,
             shutFail, modClosed, lastClear, ready, overtaken, file_transfers>>

(* ------------------------- the two registry dicts ---------------------- *)
OnlineDom(onl) == {onl[i].ws : i \in DOMAIN onl}
OnlineGet(onl, w) == onl[CHOOSE i \in DOMAIN onl : onl[i].ws = w].username
OnlineSet(onl, w, u) ==
  IF w \in OnlineDom(onl)
    THEN [i \in DOMAIN onl |-> IF onl[i].ws = w THEN [ws |-> w, username |-> u] ELSE onl[i]]
    ELSE Append(onl, [ws |-> w, username |-> u])
\* for comparison: a pop that removes every entry of the username
OnlinePopByName(onl, w) ==
  SelectSeq(onl, LAMBDA e : e.username # OnlineGet(onl, w))
OnlinePop(onl, w) == SelectSeq(onl, LAMBDA e : e.ws # w)
OnlineValues(onl) == [i \in DOMAIN onl |-> onl[i].username]
UwSet(uws, u, w) == [x \in DOMAIN uws \cup {u} |-> IF x = u THEN w ELSE uws[x]]
UwDel(uws, u) == [x \in DOMAIN uws \ {u} |-> uws[x]]
Range(s) == {s[i] : i \in DOMAIN s}

(* ------------------------------ events --------------------------------- *)
\* src (the task that sent the event), replay (sent by send_message_history)
\* and q (the last clear point when the history was queried) are not on the
\* wire; they name the event in the properties below
Frame(t, u, c, names, ts, src) ==
  [type |-> t, username |-> u, content |-> c, names |-> names, ts |-> ts,
   src |-> src, replay |-> FALSE, q |-> NoTs]
NoFrame == Frame("", "", "", <<>>, NoTs, Main)
DisplayName(u) == IF u = moderator_username THEN "*mod" ELSE u
AuthResponse(ok, u, msg, w) ==
  Frame("auth_response", IF ok THEN u ELSE "", IF ok THEN "success" ELSE msg, <<>>, NoTs, w)
Notification(u, c, src) == Frame("notification", u, c, <<>>, NoTs, src)
CommandResponse(c, names, w) == Frame("command_response", "", c, names, NoTs, w)
ShutdownFrame ==
  Notification("*mod", "Moderator disconnected. Server shutting down.", Main)

NoClear == [at |-> NoTs, deleted |-> 0]
\* what a step received and wrote
NoAct == [by |-> Main, op |-> "", arg |-> ""]
Received(w, op, arg) == act' = [by |-> w, op |-> op, arg |-> arg]
Sends(w, f) == out' = {[to |-> w, frame |-> f]}
Quiet == out' = {} /\ act' = NoAct

(* ------------------------------ the store ------------------------------ *)
\* `by` (the connection whose handler wrote the row) is not a column
Row(u, c, t, ts, w) ==
  [user |-> u, content |-> c, type |-> t, ts |-> ts, by |-> w]
\* session.add(row); session.commit()
Insert(rows, r) == rows (+) SetToBag({r})
\* query.filter(...).delete(): del is the set of rows the filter selects
DeleteWhere(rows, del) == [r \in DOMAIN rows \ del |-> rows[r]]
\* a reading of the wall clock, never before an earlier one
Reads(c) == {c} \cup (IF c < MaxClock THEN {c + 1} ELSE {})

(* ------------------------- send_message_history ------------------------ *)
Reverse(s) == [i \in 1..Len(s) |-> s[Len(s) + 1 - i]]
Min(a, b) == IF a < b THEN a ELSE b
HistoryFilter(m) == m.type \in {"chat", "notification"}
\* ORDER BY timestamp DESC: every order of the rows that is descending; the
\* order of rows with equal timestamps is the store's choice
DescOrders(sel) ==
  {s \in [1..BagCardinality(sel) -> DOMAIN sel] :
     /\ \A r \in DOMAIN sel : Cardinality({i \in DOMAIN s : s[i] = r}) = sel[r]
     /\ \A i \in DOMAIN s : i < Len(s) => s[i].ts >= s[i + 1].ts}
HistoryFrame(m, cp) ==
  [Frame(m.type, DisplayName(m.user), m.content, <<>>, m.ts, m.by)
     EXCEPT !.replay = TRUE, !.q = cp]
HistoryOrders(msgs, cp) ==
  {LET lim == SubSeq(d, 1, Min(Len(d), HistoryLimit))
       chron == Reverse(lim)
   IN  [i \in DOMAIN chron |-> HistoryFrame(chron[i], cp)] :
   d \in DescOrders(DeleteWhere(msgs, {m \in DOMAIN msgs : ~HistoryFilter(m)}))}

(* ------------------------------ notify_all ----------------------------- *)
\* for comparison: only the registered members of self.clients
RecipientsOnline(cl) == cl \cap OnlineDom(online_users)
\* the recipients of one notify_all: the members of self.clients at the call
Recipients(cl) == cl
\* gather(..., return_exceptions=True): a send that raised is a result like
\* any other, the remaining sends go on
AfterSend(pend, r, ok) == pend \ {r}
\* for comparison: a gather without return_exceptions
GatherRaises(failed) == IF failed = {} THEN "ok" ELSE "raised"
\* what gather hands back to notify_all: "ok", never an exception
GatherOutcome(failed) == "ok"

\* the tasks of rdy that still have sends to run
StillReady(rdy, pend) == SelectSeq(rdy, LAMBDA t : pend[t] # {})
\* for comparison: the sends of all live gathers run in any order
RunsNextAny(t, rdy) == t \in Range(rdy)
\* gather wraps each send in a task and the loop runs tasks first in,
\* first out: the sends of an earlier gather all run before those of a
\* later one; within one gather the order is that of the set self.clients
RunsNext(t, rdy) == rdy # <<>> /\ t = Head(rdy)
\* the gathers created before that of t whose send to r has not run yet
EarlierWaiting(t, r, rdy, pend) ==
  {rdy[i] : i \in {i \in DOMAIN rdy : /\ r \in pend[rdy[i]]
                                       /\ \E j \in DOMAIN rdy : i < j /\ rdy[j] = t}}
\* a frame is written to r: the gathers in ts that still owe r a frame fall behind
Overtake(ov, ts, r, how) ==
  [t \in Tasks |-> IF t \in ts THEN ov[t] \cup {[to |-> r, by |-> how]} ELSE ov[t]]
\* ws.send() of notify_user and of the replies: written within the step
TargetedWrite(r) ==
  overtaken' = Overtake(overtaken, {t \in Tasks : r \in pending[t]}, r, "targeted")

StartGather(t, cl, f) ==
  /\ pending' = [pending EXCEPT ![t] = Recipients(cl)]
  /\ bdone' = [bdone EXCEPT ![t] = {}]
  /\ bfail' = [bfail EXCEPT ![t] = {}]
  /\ bframe' = [bframe EXCEPT ![t] = f]
  /\ ready' = IF Recipients(cl) = {} THEN ready ELSE Append(ready, t)
  /\ overtaken' = [overtaken EXCEPT ![t] = {}]
\* notify_all has returned: its locals are gone
EndGather(t) ==
  /\ pending' = [pending EXCEPT ![t] = {}]
  /\ bdone' = [bdone EXCEPT ![t] = {}]
  /\ bfail' = [bfail EXCEPT ![t] = {}]
  /\ bframe' = [bframe EXCEPT ![t] = NoFrame]
  /\ ready' = SelectSeq(ready, LAMBDA x : x # t)
  /\ overtaken' = [overtaken EXCEPT ![t] = {}]

(* ----------------------- handle_client: finally ------------------------ *)
\* for comparison: the test of line 360 made on the username
IsModeratorName(w, u, mws) == u = moderator_username
\* line 360
IsModeratorSession(w, u, mws) == w = mws
\* lines 359-362
ReleaseModerator(w, u, mws) ==
  IF IsModeratorSession(w, u, mws)
    THEN /\ moderator_ws' = None
         /\ event' = TRUE
         /\ triggers' = triggers \cup {w}
    ELSE /\ moderator_ws' = mws
         /\ UNCHANGED <<event, triggers>>

\* handle_client returns: its locals are gone and the connection is closed
HandlerReturns(w) ==
  /\ pc' = [pc EXCEPT ![w] = "closed"]
  /\ alive' = [alive EXCEPT ![w] = FALSE]
  /\ username' = [username EXCEPT ![w] = NoUser]
  /\ hist' = [hist EXCEPT ![w] = <<>>]

\* The finally block of handle_client (lines 322-362), entered with the
\* registry as the segment that raised or returned left it and with `fails`
\* commits failed so far.
Finally(w, onl, uws, mws, fails) ==
  /\ clients' = clients \ {w}
  /\ modClosed' = (modClosed \/ w = mws)
  /\ IF w \in OnlineDom(onl)
       THEN LET u == OnlineGet(onl, w) IN
            /\ online_users' = OnlinePop(onl, w)
            /\ user_websockets' = IF u \in DOMAIN uws THEN UwDel(uws, u) ELSE uws
            /\ \/ \* the commit of the leave message raises out of finally
                  /\ fails < MaxDbFail
                  /\ dbFails' = fails + 1
                  /\ moderator_ws' = mws
                  /\ HandlerReturns(w)
                  /\ UNCHANGED <<messages, clock, event, triggers, bcVars>>
               \/ /\ dbFails' = fails
                  /\ messages' = Insert(messages, Row(u, "left the chat.", "leave", clock, w))
                  /\ UNCHANGED clock
                  /\ IF clients \ {w} = {}
                       THEN /\ ReleaseModerator(w, u, mws)
                            /\ HandlerReturns(w)
                            /\ UNCHANGED bcVars
                       ELSE /\ StartGather(w, clients \ {w},
                                           Notification(DisplayName(u), "left the chat.", w))
                            /\ pc' = [pc EXCEPT ![w] = "leave_bcast"]
                            /\ username' = [username EXCEPT ![w] = u]
                            /\ hist' = [hist EXCEPT ![w] = <<>>]
                            /\ moderator_ws' = mws
                            /\ UNCHANGED <<event, triggers, alive>>
       ELSE /\ online_users' = onl
            /\ user_websockets' = uws
            /\ dbFails' = fails
            /\ ReleaseModerator(w, username[w], mws)
            /\ HandlerReturns(w)
            /\ UNCHANGED <<messages, clock, bcVars>>

\* what a segment of handle_client leaves alone besides what Finally sets
restVars == <<mainVars, nlines, lastClear, file_transfers, cliVars>>

(* --------------------- handle_client: authentication ------------------- *)
Hash(p) == <<"argon2", p>>
password_hash(u) == Hash("pw")
verify_password(p, h) == h = Hash(p)
\* for comparison: a decode that does not look at the expiry
verify_token_unexpiring(tok) == tok \in {"valid", "expired"}
\* jwt.decode: the signature is good and the token has not expired
verify_token(tok) == tok = "valid"
\* the first frame a peer may send
AuthFrames ==
  {[type |-> "login", username |-> u, password |-> "pw", tok |-> ""] : u \in Users \cup {"eve"}}
  \cup {[type |-> "login", username |-> "bob", password |-> "bad", tok |-> ""]}
  \cup {[type |-> "token", username |-> u, password |-> "", tok |-> "valid"] : u \in Users \cup {"eve"}}
  \cup {[type |-> "token", username |-> "bob", password |-> "", tok |-> s] : s \in {"expired", "invalid"}}
  \cup {[type |-> "other", username |-> NoUser, password |-> "", tok |-> ""]}
\* "ok", or the message of the auth_response that reports the failure
AuthOutcome(f) ==
  IF f.type = "login"
    THEN IF f.username \notin Users \/ ~verify_password(f.password, password_hash(f.username))
           THEN "Invalid username or password" ELSE "ok"
  ELSE IF f.type = "token"
    THEN IF ~verify_token(f.tok) THEN "Invalid or expired token"
         ELSE IF f.username \notin Users THEN "User not found" ELSE "ok"
  ELSE "Invalid authentication method"
\* the local variable username after the branch taken
AuthUsername(f) ==
  IF f.type = "token" /\ ~verify_token(f.tok) THEN NoUser ELSE f.username
\* the frames that prove an identity: the password of an existing user, or
\* an unexpired token with a good signature of an existing user
GoodCredentials(f) ==
  \/ f.type = "login" /\ f.username \in Users /\ f.password = "pw"
  \/ f.type = "token" /\ f.username \in Users /\ f.tok = "valid"

\* line 183, up to the first recv
Accept(w) ==
  /\ listening
  /\ pc[w] = "idle"
  /\ \A v \in Conns : v < w => pc[v] # "idle"
  /\ pc' = [pc EXCEPT ![w] = "auth"]
  /\ alive' = [alive EXCEPT ![w] = TRUE]
  /\ clients' = clients \cup {w}
  /\ Quiet
  /\ UNCHANGED <<online_users, user_websockets, moderator_ws, sigVars, dbVars, bcVars,
                 restVars, username, hist>>

\* lines 188-272: the first frame arrives and is answered
AuthRecv(w) ==
  /\ lifecycle # "Stopped"
  /\ pc[w] = "auth"
  /\ alive[w]
  /\ \E f \in AuthFrames :
       /\ Sends(w, AuthResponse(AuthOutcome(f) = "ok", f.username, AuthOutcome(f), w))
       /\ Received(w, "auth", IF GoodCredentials(f) THEN "good" ELSE "bad")
       /\ username' = [username EXCEPT ![w] = AuthUsername(f)]
       /\ pc' = [pc EXCEPT ![w] = IF AuthOutcome(f) = "ok" THEN "auth_ok" ELSE "auth_fail"]
  /\ UNCHANGED <<regVars, sigVars, dbVars, bcVars, restVars, alive, hist>>

\* line 188 raises ConnectionClosed: no reply
AuthAbort(w) ==
  /\ lifecycle # "Stopped"
  /\ pc[w] = "auth"
  /\ ~alive[w]
  /\ Finally(w, online_users, user_websockets, moderator_ws, dbFails)
  /\ Quiet
  /\ UNCHANGED restVars

\* a first frame that is not JSON: line 189 raises JSONDecodeError, no reply
AuthGarbage(w) ==
  /\ lifecycle # "Stopped"
  /\ pc[w] = "auth"
  /\ alive[w]
  /\ Received(w, "auth", "garbage")
  /\ out' = {}
  /\ Finally(w, online_users, user_websockets, moderator_ws, dbFails)
  /\ UNCHANGED restVars

\* the return after a failure response (lines 206, 236, 251, 272)
AuthFailReturn(w) ==
  /\ lifecycle # "Stopped"
  /\ pc[w] = "auth_fail"
  /\ Finally(w, online_users, user_websockets, moderator_ws, dbFails)
  /\ Quiet
  /\ UNCHANGED restVars

(* ---------------------- handle_client: registration -------------------- *)
\* for comparison: a claim that does not look at moderator_ws
ClaimModeratorByName(u, w, mws) ==
  IF u = moderator_username THEN w ELSE mws
\* lines 279-280
ClaimModerator(u, w, mws) ==
  IF u = moderator_username /\ mws = None THEN w ELSE mws

\* lines 285-310: save the join message, start its broadcast
JoinStep(w, onl, uws, mws) ==
  \/ \* the commit of the join message raises
     /\ dbFails < MaxDbFail
     /\ Finally(w, onl, uws, mws, dbFails + 1)
  \/ /\ messages' = Insert(messages, Row(username[w], "joined the chat.", "join", clock, w))
     /\ online_users' = onl
     /\ user_websockets' = uws
     /\ moderator_ws' = mws
     /\ hist' = [hist EXCEPT ![w] = <<>>]
     /\ StartGather(w, clients, Notification(DisplayName(username[w]), "joined the chat.", w))
     /\ pc' = [pc EXCEPT ![w] = "bcast"]
     /\ UNCHANGED <<clients, clock, dbFails, sigVars, username, alive>>

\* lines 274-283: register, claim the moderator role, query the history and
\* send its first frame
Register(w) ==
  /\ lifecycle # "Stopped"
  /\ pc[w] = "auth_ok"
  /\ LET u == username[w]
         onl == OnlineSet(online_users, w, u)
         uws == UwSet(user_websockets, u, w)
         mws == ClaimModerator(u, w, moderator_ws)
     IN  \E h \in HistoryOrders(messages, lastClear.at) :
           IF h = <<>>
             THEN JoinStep(w, onl, uws, mws) /\ out' = {}
             ELSE IF alive[w]
               THEN /\ Sends(w, Head(h))
                    /\ hist' = [hist EXCEPT ![w] = Tail(h)]
                    /\ pc' = [pc EXCEPT ![w] = "history"]
                    /\ online_users' = onl
                    /\ user_websockets' = uws
                    /\ moderator_ws' = mws
                    /\ UNCHANGED <<clients, sigVars, dbVars, bcVars, username, alive>>
               ELSE Finally(w, onl, uws, mws, dbFails) /\ out' = {}
  /\ act' = NoAct
  /\ UNCHANGED restVars

\* line 392, after the first frame: the next frame, or lines 285-310
HistoryStep(w) ==
  /\ lifecycle # "Stopped"
  /\ pc[w] = "history"
  /\ IF hist[w] = <<>>
       THEN JoinStep(w, online_users, user_websockets, moderator_ws) /\ out' = {}
       ELSE IF alive[w]
         THEN /\ Sends(w, Head(hist[w]))
              /\ hist' = [hist EXCEPT ![w] = Tail(@)]
              /\ UNCHANGED <<regVars, sigVars, dbVars, bcVars, username, alive, pc>>
         ELSE Finally(w, online_users, user_websockets, moderator_ws, dbFails) /\ out' = {}
  /\ act' = NoAct
  /\ UNCHANGED restVars

(* ---------------------- process_message / handle_command --------------- *)
ChatLines == {"hi"}
WhisperLines == {"/w bob Hi", "/w BOB Hi", "/w bob"}
\* "<10mb>" stands for a base64 payload that decodes to 10 MiB, "<11mb>" for
\* one that decodes to 10 MiB and one byte
FileLines == {"/file bob A.txt;QUJD", "/file bob nosemi", "/file bob test.txt;base64data",
              "/file bob a.txt;<10mb>", "/file bob a.txt;<11mb>", "/file bob"}
UnknownLines == {"/foo"}
CommandLines ==
  {"/users", "/clear", "/CLEAR", "/quit"} \cup WhisperLines \cup FileLines \cup UnknownLines
Lines == ChatLines \cup CommandLines
\* message.startswith("/")
IsCommand(line) == line \in CommandLines
\* command.strip().lower(), line 435: every character of the line, the
\* arguments of the command included
Lower(line) ==
  CASE line = "/CLEAR" -> "/clear"
    [] line = "/w bob Hi" -> "/w bob hi"
    [] line = "/w BOB Hi" -> "/w bob hi"
    [] line = "/file bob A.txt;QUJD" -> "/file bob a.txt;qujd"
    [] OTHER -> line
\* str.split(" ", 2) on the lines above, as typed and in lower case
Split2(cmd) ==
  CASE cmd = "/w bob Hi" -> <<"/w", "bob", "Hi">>
    [] cmd = "/w BOB Hi" -> <<"/w", "BOB", "Hi">>
    [] cmd = "/w bob hi" -> <<"/w", "bob", "hi">>
    [] cmd = "/w bob" -> <<"/w", "bob">>
    [] cmd = "/file bob A.txt;QUJD" -> <<"/file", "bob", "A.txt;QUJD">>
    [] cmd = "/file bob a.txt;qujd" -> <<"/file", "bob", "a.txt;qujd">>
    [] cmd = "/file bob nosemi" -> <<"/file", "bob", "nosemi">>
    [] cmd = "/file bob test.txt;base64data" -> <<"/file", "bob", "test.txt;base64data">>
    [] cmd = "/file bob a.txt;<10mb>" -> <<"/file", "bob", "a.txt;<10mb>">>
    [] cmd = "/file bob a.txt;<11mb>" -> <<"/file", "bob", "a.txt;<11mb>">>
    [] cmd = "/file bob" -> <<"/file", "bob">>
    [] OTHER -> <<cmd>>
\* cmd.startswith(word + " ") for a stripped cmd
StartsWithWord(cmd, word) == Len(Split2(cmd)) >= 2 /\ Split2(cmd)[1] = word
\* line 490
IsWhisper(cmd) == StartsWithWord(cmd, "/whisper") \/ StartsWithWord(cmd, "/w")
\* for comparison: no gate
ClearPermittedAll(u, w, mws) == TRUE
\* line 447: who may clear
ClearPermitted(u, w, mws) == u = moderator_username
\* for comparison: a delete that includes the clear point
ClearFilterUpTo(m, clear_point) == m.ts <= clear_point /\ m.type \in {"chat", "notification"}
\* lines 453-456: the rows the delete removes
ClearFilter(m, clear_point) == m.ts < clear_point /\ m.type \in {"chat", "notification"}
\* lines 438-442
UsersReply(onl, w) == CommandResponse("Online users", OnlineValues(onl), w)
PermissionDenied(w) ==
  CommandResponse("Permission denied. Only moderators can clear chat history.", <<>>, w)

\* for comparison: a broadcast that does not wait for the commit
ChatUncommitted(rows, r) == rows
\* lines 416-428: the row is added and committed before notify_all is called
ChatCommitted(rows, r) == Insert(rows, r)

\* lines 404-431: a plain chat line
Chat(w, line) ==
  /\ ~IsCommand(line)
  /\ \/ \* the commit raises: nothing is broadcast, the handler ends
        /\ dbFails < MaxDbFail
        /\ Finally(w, online_users, user_websockets, moderator_ws, dbFails + 1)
     \/ \E sent \in Reads(clock) : \E ts \in Reads(sent) :
        /\ messages' = ChatCommitted(messages, Row(username[w], line, "chat", ts, w))
        /\ clock' = ts
        /\ StartGather(w, clients, Frame("chat", DisplayName(username[w]), line, <<>>, sent, w))
        /\ pc' = [pc EXCEPT ![w] = "bcast"]
        /\ UNCHANGED <<regVars, sigVars, dbFails, username, alive, hist>>
  /\ out' = {}
  /\ UNCHANGED <<lastClear, file_transfers, cliVars>>

\* lines 437-443
UsersCmd(w, line) ==
  /\ Lower(line) = "/users"
  /\ Sends(w, UsersReply(online_users, w))
  /\ UNCHANGED <<regVars, sigVars, dbVars, bcVars, locVars, lastClear, file_transfers, cliVars>>

\* lines 445-481
ClearCmd(w, line) ==
  /\ Lower(line) = "/clear"
  /\ IF ClearPermitted(username[w], w, moderator_ws)
       THEN /\ out' = {}
            /\ \/ \* the commit raises: the delete is rolled back, the handler ends
                  /\ dbFails < MaxDbFail
                  /\ Finally(w, online_users, user_websockets, moderator_ws, dbFails + 1)
                  /\ UNCHANGED <<lastClear, file_transfers, cliVars>>
               \/ \E clear_point \in Reads(clock) : \E ts \in Reads(clear_point) :
                  /\ messages' = Insert(DeleteWhere(messages, {m \in DOMAIN messages : ClearFilter(m, clear_point)}),
                                        Row(username[w], "cleared the chat history.",
                                            "clear", ts, w))
                  /\ clock' = ts
                  /\ UNCHANGED <<file_transfers, cliVars>>
                  /\ lastClear' = [at |-> clear_point,
                                    deleted |-> BagCardinality(messages) - BagCardinality(
                                      DeleteWhere(messages, {m \in DOMAIN messages : ClearFilter(m, clear_point)}))]
                  /\ StartGather(w, clients,
                                 Notification("*mod", "cleared the chat history.", w))
                  /\ pc' = [pc EXCEPT ![w] = "bcast"]
                  /\ UNCHANGED <<regVars, sigVars, dbFails, username, alive, hist>>
       ELSE /\ Sends(w, PermissionDenied(w))
            /\ UNCHANGED <<regVars, sigVars, dbVars, bcVars, locVars, lastClear, file_transfers, cliVars>>

\* lines 494-499, 504-508, 520-524
WhisperUsage(w) ==
  CommandResponse("Usage: /whisper <username> <message> or /w <username> <message>", <<>>, w)
NotOnline(target, w) == CommandResponse("User " \o target \o " is not online.", <<>>, w)
WhisperSent(target, w) == CommandResponse("Whisper sent to " \o target, <<>>, w)
\* lines 510-516: "username" is the session's name as it is
WhisperFrame(u, text, ts, w) == Frame("whisper", u, text, <<>>, ts, w)
\* notify_user, lines 171-179: the frame is written if the target's send
\* does not raise; an exception is logged and swallowed
NotifyUser(uws, target, f) ==
  IF target \in DOMAIN uws /\ alive[uws[target]] THEN {[to |-> uws[target], frame |-> f]} ELSE {}

\* lines 490-524
WhisperCmd(w, line) ==
  LET cmd == Lower(line)
      parts == Split2(cmd)
  IN  /\ IsWhisper(cmd)
      /\ IF Len(parts) < 3
           THEN /\ Sends(w, WhisperUsage(w))
                /\ UNCHANGED <<dbVars, bcVars>>
           ELSE LET target_username == parts[2]
                    private_message == parts[3]
                IN  IF target_username \notin DOMAIN user_websockets
                      THEN /\ Sends(w, NotOnline(target_username, w))
                           /\ UNCHANGED <<dbVars, bcVars>>
                      ELSE \E ts \in Reads(clock) :
                           /\ clock' = ts
                           /\ out' = NotifyUser(user_websockets, target_username,
                                                WhisperFrame(username[w], private_message, ts, w))
                                      \cup {[to |-> w, frame |-> WhisperSent(target_username, w)]}
                           /\ IF alive[user_websockets[target_username]]
                                THEN TargetedWrite(user_websockets[target_username])
                                ELSE UNCHANGED overtaken
                           /\ UNCHANGED <<messages, dbFails, pending, bframe, bdone, bfail, ready>>
      /\ UNCHANGED <<regVars, sigVars, locVars, lastClear, file_transfers, cliVars>>

\* str.split(";", 1) on the file arguments above
SplitSemi(file_data) ==
  CASE file_data = "A.txt;QUJD" -> <<"A.txt", "QUJD">>
    [] file_data = "a.txt;qujd" -> <<"a.txt", "qujd">>
    [] file_data = "test.txt;base64data" -> <<"test.txt", "base64data">>
    [] file_data = "a.txt;<10mb>" -> <<"a.txt", "<10mb>">>
    [] file_data = "a.txt;<11mb>" -> <<"a.txt", "<11mb>">>
    [] OTHER -> <<file_data>>
\* for comparison: a limit one byte lower
MaxFileSizeBelow == 10 * 1024 * 1024 - 1
\* line 564
MaxFileSize == 10 * 1024 * 1024
\* for comparison: a decoder that accepts whatever it is given
B64DecodeLenient(data) == [ok |-> TRUE, size |-> 3, bytes |-> data]
\* base64.b64decode, lines 557-561: the bytes (in hex) and their number, or
\* an exception
B64Decode(data) ==
  CASE data = "QUJD" -> [ok |-> TRUE, size |-> 3, bytes |-> "41 42 43"]
    [] data = "qujd" -> [ok |-> TRUE, size |-> 3, bytes |-> "aa e8 dd"]
    [] data = "<10mb>" -> [ok |-> TRUE, size |-> 10 * 1024 * 1024, bytes |-> "<10mb>"]
    [] data = "<11mb>" -> [ok |-> TRUE, size |-> 10 * 1024 * 1024 + 1, bytes |-> "<11mb>"]
    [] OTHER -> [ok |-> FALSE, size |-> 0, bytes |-> ""]
\* hashlib.sha256(decoded_data).hexdigest()
Sha256(bytes) == <<"sha256", bytes>>
\* lines 529-534, 565-569, 621-630
FileUsage(w) == CommandResponse("Usage: /file <username> <base64_encoded_file>", <<>>, w)
FileTooLarge(w) == CommandResponse("File too large. Maximum size is 10MB.", <<>>, w)
FileError(e, w) == CommandResponse("Error: " \o e, <<>>, w)
FileFailed(w) ==
  CommandResponse("An error occurred while processing the file transfer.", <<>>, w)
\* lines 612-615
FileSent(filename, size, target, w) ==
  CommandResponse("File '" \o filename \o "' (" \o ToString(size) \o " bytes) sent to " \o target,
                  <<>>, w)
\* lines 586-593: the row of the transfer; timestamp is the column default
FileRow(filename, size, sender, receiver, hash, ts) ==
  [filename |-> filename, size |-> size, sender |-> sender, receiver |-> receiver,
   status |-> "completed", file_hash |-> hash, ts |-> ts]
\* lines 598-606: "username" is the session's name as it is
FileFrame(u, filename, size, data, hash, ts, w) ==
  [type |-> "file", username |-> u, content |-> "", names |-> <<>>, ts |-> ts,
   src |-> w, replay |-> FALSE, q |-> NoTs,
   filename |-> filename, size |-> size, data |-> data, hash |-> hash]

\* for comparison: the payload checks before the look-up of the target
FileVerdictPayloadFirst(target_username, file_data, uws) ==
  LET file_parts == SplitSemi(file_data) IN
  IF Len(file_parts) # 2 THEN "format"
  ELSE IF ~B64Decode(file_parts[2]).ok THEN "encoding"
  ELSE IF B64Decode(file_parts[2]).size > MaxFileSize THEN "size"
  ELSE IF target_username \notin DOMAIN uws THEN "offline"
  ELSE "ok"
\* lines 539-569: the checks of a /file line in the order the code makes them
FileVerdict(target_username, file_data, uws) ==
  LET file_parts == SplitSemi(file_data) IN
  IF target_username \notin DOMAIN uws THEN "offline"
  ELSE IF Len(file_parts) # 2 THEN "format"
  ELSE IF ~B64Decode(file_parts[2]).ok THEN "encoding"
  ELSE IF B64Decode(file_parts[2]).size > MaxFileSize THEN "size"
  ELSE "ok"
\* the response that reports a failed check
FileRefusal(verdict, target_username, w) ==
  CASE verdict = "offline" -> NotOnline(target_username, w)
    [] verdict = "format" -> FileError("Invalid file format", w)
    [] verdict = "encoding" -> FileError("Invalid base64 data", w)
    [] verdict = "size" -> FileTooLarge(w)

\* lines 526-630
FileCmd(w, line) ==
  LET cmd == Lower(line)
      parts == Split2(cmd)
      target_username == parts[2]
      file_parts == SplitSemi(parts[3])
      filename == file_parts[1]
      base64_data == file_parts[2]
      decoded == B64Decode(base64_data)
      verdict == FileVerdict(target_username, parts[3], user_websockets)
      error(f) == /\ Sends(w, f)
                  /\ UNCHANGED <<dbVars, bcVars, file_transfers>>
  IN  /\ StartsWithWord(cmd, "/file")
      /\ IF Len(parts) < 3 THEN error(FileUsage(w))
         ELSE IF verdict # "ok" THEN error(FileRefusal(verdict, target_username, w))
         ELSE \/ \* the commit raises: caught at line 625
                 /\ dbFails < MaxDbFail
                 /\ dbFails' = dbFails + 1
                 /\ Sends(w, FileFailed(w))
                 /\ UNCHANGED <<messages, clock, bcVars, file_transfers>>
              \/ \E stored \in Reads(clock) : \E ts \in Reads(stored) :
                 /\ clock' = ts
                 /\ file_transfers' = Insert(file_transfers,
                        FileRow(filename, decoded.size, username[w], target_username,
                                Sha256(decoded.bytes), stored))
                 /\ out' = NotifyUser(user_websockets, target_username,
                                      FileFrame(username[w], filename, decoded.size,
                                                base64_data, Sha256(decoded.bytes), ts, w))
                            \cup {[to |-> w,
                                   frame |-> FileSent(filename, decoded.size, target_username, w)]}
                 /\ IF alive[user_websockets[target_username]]
                      THEN TargetedWrite(user_websockets[target_username])
                      ELSE UNCHANGED overtaken
                 /\ UNCHANGED <<messages, dbFails, pending, bframe, bdone, bfail, ready>>
      /\ UNCHANGED <<regVars, sigVars, locVars, lastClear, cliVars>>

\* lines 632-636
UnknownCmd(w, line) ==
  /\ IsCommand(line)
  /\ Lower(line) \notin {"/users", "/clear", "/quit"}
  /\ ~IsWhisper(Lower(line))
  /\ ~StartsWithWord(Lower(line), "/file")
  /\ Sends(w, CommandResponse("Unknown command. Available commands: /users, /whisper, /w, /file, /clear, /quit, /exit", <<>>, w))
  /\ UNCHANGED <<regVars, sigVars, dbVars, bcVars, locVars, lastClear, file_transfers, cliVars>>

\* lines 483-488: the reply, then websocket.close()
QuitCmd(w, line) ==
  /\ Lower(line) = "/quit"
  /\ Sends(w, CommandResponse("Disconnecting...", <<>>, w))
  /\ alive' = [alive EXCEPT ![w] = FALSE]
  /\ UNCHANGED <<regVars, sigVars, dbVars, bcVars, pc, username, hist, lastClear, file_transfers, cliVars>>

\* lines 313-314: one text frame arrives and is processed up to its first await
ProcessMessage(w) ==
  /\ lifecycle # "Stopped"
  /\ pc[w] = "loop"
  /\ alive[w]
  /\ nlines < MaxLines
  /\ nlines' = nlines + 1
  /\ \E line \in Lines :
       /\ Received(w, "line", line)
       /\ \/ Chat(w, line)
          \/ UsersCmd(w, line)
          \/ ClearCmd(w, line)
          \/ QuitCmd(w, line)
          \/ WhisperCmd(w, line)
          \/ FileCmd(w, line)
          \/ UnknownCmd(w, line)
  /\ UNCHANGED mainVars

\* line 313: the connection is closed, the loop ends (or raises): finally
LoopClosed(w) ==
  /\ lifecycle # "Stopped"
  /\ pc[w] = "loop"
  /\ ~alive[w]
  /\ Finally(w, online_users, user_websockets, moderator_ws, dbFails)
  /\ Quiet
  /\ UNCHANGED restVars

(* ------------------------ notify_all: the sends ------------------------ *)
\* one of the sends gather runs: client.send(message) returns or raises
BcastSend(t, r) ==
  /\ lifecycle # "Stopped"
  /\ r \in pending[t]
  /\ RunsNext(t, ready)
  /\ pending' = [pending EXCEPT ![t] = AfterSend(@, r, alive[r])]
  /\ ready' = StillReady(ready, pending')
  /\ IF alive[r]
       THEN /\ Sends(r, bframe[t])
            /\ bdone' = [bdone EXCEPT ![t] = @ \cup {r}]
            /\ overtaken' = [Overtake(overtaken, EarlierWaiting(t, r, ready, pending),
                                       r, "broadcast")
                               EXCEPT ![t] = {e \in @ : e.to # r}]
            /\ UNCHANGED bfail
       ELSE /\ out' = {}
            /\ bfail' = [bfail EXCEPT ![t] = @ \cup {r}]
            /\ overtaken' = [overtaken EXCEPT ![t] = {e \in @ : e.to # r}]
            /\ UNCHANGED bdone
  /\ act' = [by |-> t, op |-> "send", arg |-> ""]
  /\ UNCHANGED <<regVars, sigVars, dbVars, locVars, mainVars, bframe, nlines, lastClear, file_transfers, cliVars>>

\* notify_all returns to lines 310, 431 or 476; the handler awaits the next frame
BcastDone(w) ==
  /\ lifecycle # "Stopped"
  /\ pc[w] = "bcast"
  /\ pending[w] = {}
  /\ IF GatherOutcome(bfail[w]) = "ok"
       THEN /\ pc' = [pc EXCEPT ![w] = "loop"]
            /\ EndGather(w)
            /\ UNCHANGED <<regVars, sigVars, dbVars, username, alive, hist>>
       ELSE Finally(w, online_users, user_websockets, moderator_ws, dbFails)
  /\ Quiet
  /\ UNCHANGED restVars

\* notify_all returns to line 357: lines 359-362
LeaveDone(w) ==
  /\ lifecycle # "Stopped"
  /\ pc[w] = "leave_bcast"
  /\ pending[w] = {}
  /\ ReleaseModerator(w, username[w], moderator_ws)
  /\ HandlerReturns(w)
  /\ EndGather(w)
  /\ Quiet
  /\ UNCHANGED <<clients, online_users, user_websockets, dbVars, restVars, modClosed>>

(* ------------------------------ the peer ------------------------------- *)
\* the client disconnects, or the transport fails
ConnectionLost(w) ==
  /\ lifecycle # "Stopped"
  /\ pc[w] \notin {"idle", "closed"}
  /\ alive[w]
  /\ alive' = [alive EXCEPT ![w] = FALSE]
  /\ Quiet
  /\ UNCHANGED <<regVars, sigVars, dbVars, bcVars, mainVars, pc, username, hist,
                 nlines, lastClear, file_transfers, cliVars>>

(* --------------------------- start / shutdown -------------------------- *)
\* lines 137-140: the first active row of this port becomes inactive
MarkInactive(srv) ==
  IF \E i \in DOMAIN srv : srv[i]
    THEN [srv EXCEPT ![CHOOSE i \in DOMAIN srv : srv[i] /\ \A j \in DOMAIN srv : srv[j] => i <= j] = FALSE]
    ELSE srv

\* asyncio.run() is over: the process and everything it held in memory is gone
ProcessEnds ==
  /\ lifecycle' = "Stopped"
  /\ listening' = FALSE
  /\ clients' = {}
  /\ online_users' = <<>>
  /\ user_websockets' = <<>>
  /\ moderator_ws' = None
  /\ pc' = [w \in Conns |-> "closed"]
  /\ username' = [w \in Conns |-> NoUser]
  /\ alive' = [w \in Conns |-> FALSE]
  /\ hist' = [w \in Conns |-> <<>>]
  /\ pending' = [t \in Tasks |-> {}]
  /\ bframe' = [t \in Tasks |-> NoFrame]
  /\ bdone' = [t \in Tasks |-> {}]
  /\ bfail' = [t \in Tasks |-> {}]
  /\ ready' = <<>>
  /\ overtaken' = [t \in Tasks |-> {}]

\* lines 134-154, after the broadcast: mark inactive, release the endpoint
ShutdownFinish(sent, failed) ==
  /\ shutSent' = sent
  /\ shutFail' = failed
  /\ \/ \* the commit raises out of start(): main() logs it (line 663)
        /\ dbFails < MaxDbFail
        /\ dbFails' = dbFails + 1
        /\ mainpc' = "raised"
        /\ ProcessEnds
        /\ UNCHANGED servers
     \/ /\ servers' = MarkInactive(servers)
        /\ listening' = FALSE
        /\ alive' = [w \in Conns |-> FALSE]
        /\ mainpc' = "wait_closed"
        /\ lifecycle' = "ShuttingDown"
        /\ EndGather(Main)
        /\ UNCHANGED <<regVars, dbFails, pc, username, hist>>

\* lines 115-132: the event is set, start() resumes and enters shutdown()
ShutdownStart ==
  /\ lifecycle = "Accepting"
  /\ mainpc = "wait"
  /\ event
  /\ shutdownRuns' = shutdownRuns + 1
  /\ shutSnap' = clients
  /\ IF clients = {}
       THEN ShutdownFinish({}, {})
       ELSE /\ StartGather(Main, clients, ShutdownFrame)
            /\ lifecycle' = "ShuttingDown"
            /\ mainpc' = "notify"
            /\ UNCHANGED <<regVars, locVars, listening, servers, dbFails, shutSent,
                           shutFail>>
  /\ Quiet
  /\ UNCHANGED <<sigVars, messages, clock, nlines, lastClear, file_transfers, cliVars>>

\* notify_all returns to line 132
ShutdownNotified ==
  /\ lifecycle = "ShuttingDown"
  /\ mainpc = "notify"
  /\ pending[Main] = {}
  /\ ShutdownFinish(bdone[Main], bfail[Main])
  /\ Quiet
  /\ UNCHANGED <<sigVars, messages, clock, nlines, lastClear, file_transfers, cliVars, shutdownRuns, shutSnap>>

\* line 154: wait_closed() returns once every handler has returned
ShutdownDone ==
  /\ lifecycle = "ShuttingDown"
  /\ mainpc = "wait_closed"
  /\ \A w \in Conns : pc[w] \in {"idle", "closed"}
  /\ mainpc' = "returned"
  /\ ProcessEnds
  /\ Quiet
  /\ UNCHANGED <<sigVars, dbVars, servers, shutdownRuns, shutSnap, shutSent, shutFail,
                 nlines, lastClear, file_transfers, cliVars>>

\* main(), lines 658-661: KeyboardInterrupt ends asyncio.run; shutdown() is
\* not called.  The cleanup asyncio.run gives the cancelled handlers on its
\* way out is not modelled: start() is no longer waiting for the event then.
StopSignal ==
  /\ lifecycle # "Stopped"
  /\ mainpc' = "interrupted"
  /\ ProcessEnds
  /\ Quiet
  /\ UNCHANGED <<sigVars, dbVars, servers, shutdownRuns, shutSnap, shutSent, shutFail,
                 nlines, lastClear, file_transfers, cliVars>>

(* ------------------------- the client processes ----------------------- *)
Engines == {"ann", "bob"}        \* the users that run a client
NoKey == 0                       \* Python None for a key
NoFile == <<>>                   \* a file that does not exist
NoConsole == [by |-> "", op |-> "", arg |-> <<>>, printed |-> {}, asked |-> <<>>, result |-> <<>>]
\* before any client has been started: the key directories are empty
ClientInit ==
  /\ running = [e \in Engines |-> FALSE]
  /\ encryption_enabled = [e \in Engines |-> FALSE]
  /\ private_key = [e \in Engines |-> NoKey]
  /\ public_key = [e \in Engines |-> NoKey]
  /\ peer_keys = [e \in Engines |-> <<>>]
  /\ keys_dir = [e \in Engines |-> [private |-> NoFile, public |-> NoFile, peer |-> <<>>]]
  /\ downloads = [e \in Engines |-> <<>>]
  /\ generated = 0
  /\ urandom = [key |-> {}, iv |-> {}]
  /\ envelopes = <<>>
  /\ websocket_sent = <<>>
  /\ console = NoConsole
  /\ encrypt_typed = [e \in Engines |-> {}]
  /\ connect_pc = "idle"
  /\ websocket = "none"
  /\ receive_task = "none"
  /\ send_task = "none"
  /\ cancel_called = {}
  /\ displayed = 0
  /\ sent_lines = 0
  /\ send_errors = 0

(* ------------------------------ the system ----------------------------- *)
\* the state when start() awaits the event (line 117); earlier holds the
\* active flags of the rows that earlier runs on this port left in the
\* store, and lines 86-95 have added the row of this run after them
InitAfter(earlier) ==
  /\ lifecycle = "Accepting"
  /\ listening = TRUE
  /\ mainpc = "wait"
  /\ event = FALSE
  /\ clients = {}
  /\ online_users = <<>>
  /\ user_websockets = <<>>
  /\ moderator_ws = None
  /\ messages = EmptyBag
  /\ servers = Append(earlier, TRUE)
  /\ clock = 1
  /\ pc = [w \in Conns |-> "idle"]
  /\ username = [w \in Conns |-> NoUser]
  /\ alive = [w \in Conns |-> FALSE]
  /\ hist = [w \in Conns |-> <<>>]
  /\ pending = [t \in Tasks |-> {}]
  /\ bframe = [t \in Tasks |-> NoFrame]
  /\ bdone = [t \in Tasks |-> {}]
  /\ bfail = [t \in Tasks |-> {}]
  /\ ready = <<>>
  /\ overtaken = [t \in Tasks |-> {}]
  /\ file_transfers = EmptyBag
  /\ out = {}
  /\ act = NoAct
  /\ nlines = 0
  /\ dbFails = 0
  /\ triggers = {}
  /\ shutdownRuns = 0
  /\ shutSnap = {}
  /\ shutSent = {}
  /\ shutFail = {}
  /\ modClosed = FALSE
  /\ lastClear = NoClear
  /\ ClientInit
\* a first run on the port: the store holds the row of this run only
Init == InitAfter(<<>>)

HandlerStep ==
  \E w \in Conns :
    \/ AuthAbort(w)
    \/ AuthFailReturn(w)
    \/ Register(w)
    \/ HistoryStep(w)
    \/ LoopClosed(w)
    \/ BcastDone(w)
    \/ LeaveDone(w)
SendStep == \E t \in Tasks : \E r \in Conns : BcastSend(t, r)
MainStep == ShutdownStart \/ ShutdownNotified \/ ShutdownDone
\* what the server does by itself
ServerStep == HandlerStep \/ SendStep \/ MainStep
\* what the peers and the operator do
PeerStep ==
  \E w \in Conns : Accept(w) \/ AuthRecv(w) \/ AuthGarbage(w) \/ ProcessMessage(w) \/ ConnectionLost(w)

Next == ServerStep \/ PeerStep \/ StopSignal
Spec == Init /\ [][Next]_vars
\* the event loop runs every task that can run: a handler, a send of a
\* gather, start().  What the peers and the operator do is under no
\* fairness: a peer may stay silent, the operator may never interrupt.
FairSpec == Spec /\ WF_vars(ServerStep)

TypeOK ==
  /\ lifecycle \in {"Accepting", "ShuttingDown", "Stopped"}
  /\ moderator_ws \in Conns \cup {None}
  /\ clients \subseteq Conns
  /\ OnlineDom(online_users) \subseteq Conns
  /\ DOMAIN user_websockets \subseteq Users
  /\ nlines <= MaxLines /\ dbFails <= MaxDbFail /\ clock <= MaxClock

(* ------------------------------ properties ----------------------------- *)
\* the sessions handle_client has registered (line 275) and not yet cleaned up
Registered(w) == pc[w] \in {"history", "bcast", "loop"}
\* this step is handle_client of w passing lines 274-280
Registers(w) == pc[w] = "auth_ok" /\ pc'[w] # "auth_ok" /\ lifecycle' # "Stopped"

\* C1: the moderator role has at most one holder.  A session that registers
\* under the moderator name while the role is free becomes the holder; a
\* session that registers under that name while the role is held leaves the
\* holder as it is; the role goes from a holder to none, and to nothing else,
\* and only in a step in which the handler of the holder ends.
C1Step ==
  /\ moderator_ws # None /\ moderator_ws' # moderator_ws
       => /\ moderator_ws' = None
          /\ pc'[moderator_ws] = "closed"
  /\ moderator_ws = None /\ moderator_ws' # None
       => /\ Registers(moderator_ws')
          /\ username[moderator_ws'] = moderator_username
  /\ \A w \in Conns :
       Registers(w) /\ Registered(w)' /\ username[w] = moderator_username
         => moderator_ws' = (IF moderator_ws = None THEN w ELSE moderator_ws)
C1OneModerator == [][C1Step]_vars
\* a second session is registered under the moderator name while the first holds the role
C1Witness ==
  /\ moderator_ws = 1
  /\ Registered(1) /\ Registered(2)
  /\ username[2] = moderator_username

\* C2: shutdown() is entered at most once in a run; the server leaves
\* Accepting for ShuttingDown only with the event set; and the event is set
\* only by the handler of the session that holds the moderator role, in the
\* step in which that handler ends, never by the handler of another session.
C2Step ==
  /\ shutdownRuns' <= 1
  /\ lifecycle # "ShuttingDown" /\ lifecycle' = "ShuttingDown"
       => lifecycle = "Accepting" /\ event /\ shutdownRuns = 0 /\ shutdownRuns' = 1
  /\ \A w \in Conns :
       w \in triggers' \ triggers
         => /\ pc'[w] = "closed"
            /\ \/ moderator_ws = w
               \/ Registers(w) /\ ClaimModerator(username[w], w, moderator_ws) = w
  /\ event' # event => event' /\ triggers' # triggers
C2ShutdownOnce == [][C2Step]_vars
\* the event was set a second time, by a later holder of the role, and
\* shutdown() has still run once
C2Witness ==
  /\ Cardinality(triggers) = 2
  /\ shutdownRuns = 1
  /\ mainpc = "returned"

\* C3: while shutdown() broadcasts its notification the endpoint is still
\* listening, and when shutdown() goes on to release it, every session that
\* was in self.clients when shutdown() was entered has had the notification
\* written to it, or its own send has raised.
C3ShutdownBroadcast ==
  /\ mainpc = "notify" => listening /\ bframe[Main] = ShutdownFrame
  /\ mainpc \in {"wait_closed", "returned", "raised"}
       => /\ shutSent \cup shutFail = shutSnap
          /\ shutdownRuns = 1
  /\ ~listening => mainpc # "notify"
\* shutdown() has written the notification to a session and released the endpoint
C3Witness ==
  /\ mainpc = "wait_closed"
  /\ shutSent # {}
  /\ shutSent = shutSnap

\* C4: once the handler of the session that holds the moderator role has
\* reached its cleanup, the server eventually reaches Stopped.
C4ModeratorCloseStops == modClosed ~> lifecycle = "Stopped"

\* the task t runs one send of its notify_all in this step
SendsOne(t) == act'.op = "send" /\ act'.by = t
\* C5: a notify_all starts with the members of self.clients as recipients;
\* every recipient gets its send, one by one, a send to an open connection
\* writes the event to it whatever happened to the other sends, and when the
\* last send is over the handler that called notify_all goes on to read its
\* next frame: nothing was raised to it.
C5Step ==
  \A t \in Tasks :
    /\ pending[t] = {} /\ pending'[t] # {} => pending'[t] = clients'
    /\ pending[t] # {} /\ lifecycle' # "Stopped"
         => \/ pending'[t] = pending[t] /\ ~SendsOne(t)
            \/ /\ SendsOne(t)
               /\ \E r \in pending[t] :
                    /\ pending'[t] = pending[t] \ {r}
                    /\ alive[r] => out' = {[to |-> r, frame |-> bframe[t]]}
    /\ t \in Conns /\ pc[t] = "bcast" /\ pc'[t] # "bcast" /\ lifecycle' # "Stopped"
         => pending[t] = {} /\ pc'[t] = "loop"
C5BroadcastIsolation == [][C5Step]_vars
\* a send of a broadcast has raised and the last step delivered the same
\* broadcast to another recipient
C5Witness ==
  \E t \in Conns : \E r \in Conns :
    /\ pc[t] = "bcast"
    /\ bfail[t] # {}
    /\ act = [by |-> t, op |-> "send", arg |-> ""]
    /\ out = {[to |-> r, frame |-> bframe[t]]}

\* C6: the reply to /users goes to the caller alone and lists exactly the
\* usernames of the registered sessions.
C6UsersExact ==
  act.op = "line" /\ Lower(act.arg) = "/users"
    => \E f \in {e.frame : e \in out} :
         /\ out = {[to |-> act.by, frame |-> f]}
         /\ f.type = "command_response"
         /\ Range(f.names) = {username[w] : w \in {v \in Conns : Registered(v)}}
\* /users was answered when a session under a name had closed and another
\* session under the same name was still registered
C6Witness ==
  /\ act.op = "line" /\ Lower(act.arg) = "/users"
  /\ pc[1] = "closed" /\ Registered(2)
  /\ \E e \in out : e.frame.names = <<"bob">>
  /\ \E r \in DOMAIN messages : r.type = "leave" /\ r.user = "bob"

\* C7: online_users and user_websockets are inverse to each other.
C7Bijection ==
  /\ \A w \in OnlineDom(online_users) :
       /\ OnlineGet(online_users, w) \in DOMAIN user_websockets
       /\ user_websockets[OnlineGet(online_users, w)] = w
  /\ \A u \in DOMAIN user_websockets :
       /\ user_websockets[u] \in OnlineDom(online_users)
       /\ OnlineGet(online_users, user_websockets[u]) = u

\* what a step leaves of the registry, the store and the signals
Untouched(w) ==
  /\ w \notin OnlineDom(online_users')
  /\ \A u \in DOMAIN user_websockets' : user_websockets'[u] # w
  /\ moderator_ws' # w
  /\ messages' = messages
  /\ triggers' = triggers /\ event' = event
  /\ pending'[w] = {}
\* C8: a first frame that does not prove an identity is answered by one
\* auth_response without success, written to its sender alone; the connection
\* is not registered in either dict, does not become the moderator session,
\* and the only step its handler takes afterwards is to end, without writing
\* a row, starting a broadcast or setting the event.
C8Step ==
  \A w \in Conns :
    /\ act' = [by |-> w, op |-> "auth", arg |-> "bad"]
         => /\ \E f \in {e.frame : e \in out'} :
                 /\ out' = {[to |-> w, frame |-> f]}
                 /\ f.type = "auth_response" /\ f.content # "success"
            /\ pc'[w] = "auth_fail"
            /\ Untouched(w)
    /\ pc[w] = "auth_fail"
         => /\ pc'[w] \in {"auth_fail", "closed"}
            /\ \A e \in out' : e.to = w => e.frame.src # w
            /\ pc'[w] = "closed" => Untouched(w) /\ out' = {} /\ ~alive'[w]
C8AuthFailure == [][C8Step]_vars
\* a connection that sent an expired token has been refused while another
\* session is registered
C8Witness ==
  /\ Registered(1)
  /\ pc[2] = "auth_fail"
  /\ act = [by |-> 2, op |-> "auth", arg |-> "bad"]
  /\ \E e \in out : e.to = 2 /\ e.frame.content = "Invalid or expired token"

\* this step is handle_command of w taking a /clear
Clears(w) == act' = [by |-> w, op |-> "line", arg |-> act'.arg] /\ Lower(act'.arg) = "/clear"
\* what a refused /clear does: one reply to the caller, nothing else
Refused(w) ==
  /\ messages' = messages
  /\ out' = {[to |-> w, frame |-> PermissionDenied(w)]}
  /\ pending' = pending
  /\ lastClear' = lastClear
\* C9 as stated: a /clear of a session that does not hold the moderator role
\* is refused.
C9NotModeratorSession ==
  [][\A w \in Conns : Clears(w) /\ moderator_ws # w => Refused(w)]_vars
\* C9: a /clear of a session whose username is not the moderator name
\* deletes no row and starts no broadcast; the caller alone gets one
\* permission-denied command_response.
C9NotModeratorName ==
  [][\A w \in Conns : Clears(w) /\ username[w] # moderator_username => Refused(w)]_vars
\* bob's /clear was refused while the table held a chat row
C9Witness ==
  /\ act.op = "line" /\ Lower(act.arg) = "/clear"
  /\ username[act.by] = "bob"
  /\ out = {[to |-> act.by, frame |-> PermissionDenied(act.by)]}
  /\ \E r \in DOMAIN messages : r.type = "chat"

\* this step is handle_command of w committing a /clear
Cleared(w) == Clears(w) /\ pc'[w] = "bcast"
\* C10: a committed /clear removes every chat and notification row whose
\* timestamp is before its clear point and no other row, and a history
\* replay queried after a clear sends no event from before that clear point.
C10Step ==
  /\ \A w \in Conns :
       Cleared(w) /\ username[w] = moderator_username
         => \A r \in DOMAIN messages \cup DOMAIN messages' :
              r.type # "clear"
                => CopiesIn(r, messages') =
                     (IF r.type \in {"chat", "notification"} /\ r.ts < lastClear'.at
                        THEN 0 ELSE CopiesIn(r, messages))
  /\ \A e \in out' : e.frame.replay => e.frame.ts >= e.frame.q
C10ClearThenReplay == [][C10Step]_vars
\* the moderator's /clear has just deleted a chat row
C10Witness ==
  /\ act.op = "line" /\ Lower(act.arg) = "/clear"
  /\ username[act.by] = moderator_username
  /\ lastClear.deleted = 1
  /\ pc[act.by] = "bcast"
  /\ \A r \in DOMAIN messages : r.type # "chat"

(* --------------------------- whisper and file -------------------------- *)
\* this step is the handler of w receiving the text frame line
ReceivedLine(w, line) == act' = [by |-> w, op |-> "line", arg |-> line]
\* the words of the line as the sender typed them
TypedTarget(line) == Split2(line)[2]
TypedText(line) == Split2(line)[3]
\* the step stores nothing and starts no broadcast
NothingStored == messages' = messages /\ file_transfers' = file_transfers
NothingBroadcast == pending' = pending /\ ready' = ready
\* a registered session with an open connection is named u
Reachable(u) == \E t \in Conns : Registered(t) /\ alive[t] /\ username[t] = u

\* C11: when a session sends "/w <user> <text>" and <user> is the name of a
\* registered session whose connection is open, the step writes exactly two
\* frames: one whisper, from the sender, to a session registered under that
\* name, and the confirmation to the sender; it stores nothing and starts no
\* broadcast.
C11Step ==
  \A w \in Conns : \A line \in WhisperLines :
    ReceivedLine(w, line) /\ Len(Split2(line)) = 3 /\ Reachable(TypedTarget(line))
      => /\ \E t \in Conns : \E f \in {e.frame : e \in out'} :
              /\ Registered(t) /\ username[t] = TypedTarget(line)
              /\ f.type = "whisper"
              /\ f.username \in {username[w], DisplayName(username[w])}
              /\ out' = {[to |-> t, frame |-> f],
                         [to |-> w, frame |-> WhisperSent(TypedTarget(line), w)]}
         /\ NothingStored
         /\ NothingBroadcast
C11WhisperDelivery == [][C11Step]_vars

\* C12: the content of every whisper frame written in the step that receives
\* a whisper line is the text the sender typed after the target name,
\* character for character.
C12Step ==
  \A w \in Conns : \A line \in WhisperLines :
    ReceivedLine(w, line)
      => \A e \in out' : e.frame.type = "whisper" => e.frame.content = TypedText(line)
C12WhisperVerbatim == [][C12Step]_vars

\* no registered session is named u
Unregistered(u) == \A t \in Conns : Registered(t) => username[t] # u
\* the step writes one frame, to w, saying that the target is not online
OnlyNotOnline(w, line) ==
  \E u \in {TypedTarget(line), Split2(Lower(line))[2]} :
    out' = {[to |-> w, frame |-> NotOnline(u, w)]}

\* C13: when a session sends a whisper or file line with a target and no
\* registered session has the target's name, the step writes exactly one
\* frame, the "not online" response to the sender, whatever the payload is;
\* it stores no message and no transfer and starts no broadcast.
C13Step ==
  \A w \in Conns : \A line \in WhisperLines \cup FileLines :
    ReceivedLine(w, line) /\ Len(Split2(line)) = 3 /\ Unregistered(TypedTarget(line))
      => OnlyNotOnline(w, line) /\ NothingStored /\ NothingBroadcast
C13TargetOffline == [][C13Step]_vars
\* the same for the lines typed in lower case
C13StepLower ==
  \A w \in Conns : \A line \in WhisperLines \cup FileLines :
    ReceivedLine(w, line) /\ Len(Split2(line)) = 3 /\ Unregistered(TypedTarget(line))
    /\ TypedTarget(line) = Split2(Lower(line))[2]
      => OnlyNotOnline(w, line) /\ NothingStored /\ NothingBroadcast
C13TargetOfflineLower == [][C13StepLower]_vars

(* ------------------------------- ordering ------------------------------ *)
\* this step is a send of the gather of t writing its frame to r
Delivers(t, r) ==
  act' = [by |-> t, op |-> "send", arg |-> ""] /\ out' = {[to |-> r, frame |-> bframe[t]]}

\* C14 as stated: a recipient is written the frames of the hub in the order
\* in which they were submitted: when the frame of a broadcast is written to
\* a recipient, no frame submitted after that broadcast, broadcast or
\* targeted, has been written to the recipient before.
C14Step ==
  \A t \in Tasks : \A r \in Conns :
    Delivers(t, r) => \A e \in overtaken[t] : e.to # r
C14SubmissionOrder == [][C14Step]_vars
\* C14, amended: the frames of two broadcasts are written to a common
\* recipient in the order in which the broadcasts were submitted; only a
\* targeted send (whisper, file) is written ahead of a broadcast that was
\* submitted before it.
C14BroadcastStep ==
  \A t \in Tasks : \A r \in Conns :
    Delivers(t, r) => /\ \A e \in overtaken[t] : e.to = r => e.by = "targeted"
                      /\ \A e \in overtaken'[t] : e.by = "targeted"
                      /\ EarlierWaiting(t, r, ready, pending) = {}
C14BroadcastOrder == [][C14BroadcastStep]_vars
\* two broadcasts are under way for a common recipient and the earlier one
\* has just been written to it
C14Witness ==
  /\ Len(ready) = 2
  /\ act = [by |-> ready[1], op |-> "send", arg |-> ""]
  /\ \E e \in out : e.to \in pending[ready[2]] /\ e.frame = bframe[ready[1]]

(* ------------------------------ lifecycle ------------------------------ *)
\* C15: once the server is ShuttingDown no step accepts a connection,
\* registers a session, starts a join notification or gives the moderator
\* role to a session; once it is Stopped no step receives or writes a frame
\* or changes the registry.
C15Step ==
  /\ lifecycle = "ShuttingDown"
       => /\ \A w \in Conns : pc[w] = "idle" => pc'[w] \in {"idle", "closed"}
          /\ \A w \in Conns : ~Registers(w)
          /\ OnlineDom(online_users') \subseteq OnlineDom(online_users)
          /\ \A t \in Tasks : bframe'[t] # bframe[t] => bframe'[t].content # "joined the chat."
          /\ moderator_ws' \in {moderator_ws, None}
  /\ lifecycle = "Stopped"
       => /\ act' = NoAct /\ out' = {}
          /\ UNCHANGED regVars
C15NoAdmissionAfterShutdown == [][C15Step]_vars

\* C16: when the server process has finished, whatever ended the run, no
\* row of the servers table of this port is still marked active.
C16InactiveWhenStopped == lifecycle = "Stopped" => \A i \in DOMAIN servers : ~servers[i]

(* ------------------------------ chat lines ----------------------------- *)
\* the row of the chat line that the frame f was built from is in rows
ChatRowOf(f, rows) ==
  \E m \in DOMAIN rows :
    /\ m.type = "chat" /\ m.by = f.src /\ m.content = f.content
    /\ DisplayName(m.user) = f.username /\ m.ts >= f.ts
\* the rows of chat lines
ChatRows(rows) == DeleteWhere(rows, {m \in DOMAIN rows : m.type # "chat"})
\* the step writes the chat frame f live, not as a part of a history replay
LiveChat(f) == \E e \in out' : e.frame = f /\ f.type = "chat" /\ ~f.replay

\* C17 as stated: whenever a chat frame is written live to a session, the
\* row of its line is in the messages table.
C17StepStated == \A t \in Tasks : LiveChat(bframe[t]) => ChatRowOf(bframe[t], messages')
C17DeliveredIsPersisted == [][C17StepStated]_vars
\* C17, amended: the step that receives a chat line writes nothing; it starts
\* the broadcast only together with the commit of the row, and when the
\* commit raises no chat frame is broadcast and no chat row is stored (the
\* handler ends, which may store and broadcast its leave).  Whenever a chat
\* frame is written live, the row of its line is in the messages table or a
\* /clear committed after the line was sent has removed it.
C17Step ==
  /\ \A w \in Conns : \A line \in ChatLines :
       ReceivedLine(w, line)
         => /\ out' = {}
            /\ dbFails' = dbFails
                 => /\ pending'[w] # {}
                    /\ bframe'[w].type = "chat" /\ bframe'[w].content = line
                    /\ ChatRowOf(bframe'[w], messages')
                    /\ BagCardinality(messages') = BagCardinality(messages) + 1
            /\ dbFails' # dbFails
                 => /\ bframe'[w].type # "chat"
                    /\ ChatRows(messages') = ChatRows(messages)
  /\ \A f \in {e.frame : e \in out'} :
       f.type = "chat" /\ ~f.replay
         => /\ \E t \in Tasks : \E r \in Conns : Delivers(t, r) /\ bframe[t] = f
            /\ ChatRowOf(f, messages') \/ f.ts < lastClear'.at
C17PersistThenBroadcast == [][C17Step]_vars
\* a chat frame has just been written live after a /clear removed its row
C17Witness ==
  \E e \in out :
    /\ e.frame.type = "chat" /\ ~e.frame.replay
    /\ ~ChatRowOf(e.frame, messages)
    /\ e.frame.ts < lastClear.at

(* ------------------------------ the marker ----------------------------- *)
\* the events that name their author
Authored == {"chat", "notification", "whisper", "file"}

\* C18: in every chat, notification, replayed, whisper and file frame the
\* server writes, the moderator's name appears with the marker only, and the
\* marked name appears only in frames whose author is the server itself or
\* a session of the moderator.
C18Step ==
  \A f \in {e.frame : e \in out'} :
    f.type \in Authored
      => /\ f.username # moderator_username
         /\ f.username = DisplayName(moderator_username) /\ ~f.replay
              => f.src = Main \/ username[f.src] = moderator_username
C18MarkerEverywhere == [][C18Step]_vars

(* --------------------------- failing commands -------------------------- *)
\* the modelled lines by what is wrong with them
UsageLines == {"/w bob", "/file bob"}
MalformedLines == {"/file bob nosemi"}
UndecodableLines == {"/file bob test.txt;base64data"}
OversizeLines == {"/file bob a.txt;<11mb>"}
\* the line is a /file line for a target no registered session is named after
OfflineFile(line) ==
  line \in FileLines /\ Len(Split2(line)) = 3 /\ Unregistered(TypedTarget(line))
FailingCommand(line) ==
  \/ line \in UnknownLines \cup UsageLines \cup MalformedLines \cup UndecodableLines
              \cup OversizeLines
  \/ OfflineFile(line)

\* C19: the step that receives a failing command (unknown command, whisper
\* or file usage error, malformed, undecodable or oversize file, file for a
\* target that is not registered) writes exactly one frame, a
\* command_response to the sender, and changes nothing else: no other
\* session is written to, no message and no transfer is stored, no broadcast
\* starts, the registry is as before and the sender's connection stays open.
C19Step ==
  \A w \in Conns : \A line \in CommandLines :
    ReceivedLine(w, line) /\ FailingCommand(line)
      => /\ \E f \in {e.frame : e \in out'} :
              f.type = "command_response" /\ out' = {[to |-> w, frame |-> f]}
         /\ alive'[w] /\ pc'[w] = "loop"
         /\ UNCHANGED <<regVars, sigVars, dbVars, bcVars, locVars, mainVars, lastClear,
                        file_transfers>>
C19FailingCommandFrame == [][C19Step]_vars
\* a file whose payload does not decode has just been refused; its target is registered
C19Witness ==
  /\ act.op = "line" /\ act.arg \in UndecodableLines
  /\ "bob" \in DOMAIN user_websockets
  /\ out = {[to |-> act.by, frame |-> FileError("Invalid base64 data", act.by)]}
  /\ file_transfers = EmptyBag

\* the first check a /file line fails, in the order payload shape, payload
\* encoding, decoded size, target
ClaimedVerdict(line) ==
  IF line \in MalformedLines THEN "format"
  ELSE IF line \in UndecodableLines THEN "encoding"
  ELSE IF line \in OversizeLines THEN "size"
  ELSE IF Unregistered(TypedTarget(line)) THEN "offline"
  ELSE "ok"
\* the same in the order target, payload shape, payload encoding, decoded
\* size, where the target is looked up by name in user_websockets
OrderedVerdict(line) ==
  IF TypedTarget(line) \notin DOMAIN user_websockets THEN "offline"
  ELSE IF line \in MalformedLines THEN "format"
  ELSE IF line \in UndecodableLines THEN "encoding"
  ELSE IF line \in OversizeLines THEN "size"
  ELSE "ok"
\* the step refuses the line with the response for the verdict v, and with nothing else
RefusedFor(w, line, v) == out' = {[to |-> w, frame |-> FileRefusal(v, TypedTarget(line), w)]}

\* C20 as stated: a /file line that fails a check is refused with the error
\* of the first failed check in the order shape, encoding, size, target.
C20StepStated ==
  \A w \in Conns : \A line \in FileLines :
    ReceivedLine(w, line) /\ Len(Split2(line)) = 3 /\ ClaimedVerdict(line) # "ok"
      => RefusedFor(w, line, ClaimedVerdict(line))
C20PayloadBeforeTarget == [][C20StepStated]_vars
\* C20, amended: a /file line that fails a check is refused with the error
\* of the first failed check in the order target, shape, encoding, size.
C20Step ==
  \A w \in Conns : \A line \in FileLines :
    ReceivedLine(w, line) /\ Len(Split2(line)) = 3 /\ OrderedVerdict(line) # "ok"
      => RefusedFor(w, line, OrderedVerdict(line))
C20TargetBeforePayload == [][C20Step]_vars
\* a malformed file for a target that is not online has just been refused
C20Witness ==
  /\ act.op = "line" /\ act.arg \in MalformedLines
  /\ "bob" \notin DOMAIN user_websockets
  /\ out = {[to |-> act.by, frame |-> NotOnline("bob", act.by)]}

(* ---------------------------- file transfers --------------------------- *)
\* the /file lines that pass every check when their target is online
ValidFileLines == {"/file bob A.txt;QUJD", "/file bob a.txt;<10mb>"}
\* what the sender typed after the target: the file name and the payload
TypedName(line) == SplitSemi(TypedText(line))[1]
TypedData(line) == SplitSemi(TypedText(line))[2]
\* the step stores exactly one transfer, r
StoresTransfer(r) == file_transfers' = file_transfers (+) SetToBag({r})
\* the commit of the step does not raise
Commits == dbFails' = dbFails

\* C21: when a session sends a valid /file line whose target is the name of
\* a registered session with an open connection, and the store accepts the
\* commit, the step stores exactly one transfer, completed, whose size and
\* hash are those of the decoded payload; it writes exactly two frames: one
\* file frame with the same name, size and hash to a session registered
\* under the target's name, and the success response to the sender.
C21Step ==
  \A w \in Conns : \A line \in ValidFileLines :
    ReceivedLine(w, line) /\ Reachable(TypedTarget(line)) /\ Commits
      => \E r \in DOMAIN file_transfers' : \E t \in Conns : \E f \in {e.frame : e \in out'} :
           /\ StoresTransfer(r)
           /\ r.status = "completed"
           /\ \E data \in {TypedData(line), SplitSemi(Split2(Lower(line))[3])[2]} :
                /\ r.size = B64Decode(data).size
                /\ r.file_hash = Sha256(B64Decode(data).bytes)
           /\ Registered(t) /\ username[t] = TypedTarget(line)
           /\ f.type = "file"
           /\ f.filename = r.filename /\ f.size = r.size /\ f.hash = r.file_hash
           /\ out' = {[to |-> t, frame |-> f],
                      [to |-> w, frame |-> FileSent(r.filename, r.size, r.receiver, w)]}
C21FileDelivery == [][C21Step]_vars
\* the same when the target's name has an entry in user_websockets and the
\* connection of that entry is open
C21StepOnline ==
  \A w \in Conns : \A line \in ValidFileLines :
    ReceivedLine(w, line) /\ Commits
    /\ TypedTarget(line) \in DOMAIN user_websockets
    /\ alive[user_websockets[TypedTarget(line)]]
      => \E r \in DOMAIN file_transfers' : \E f \in {e.frame : e \in out'} :
           /\ StoresTransfer(r)
           /\ r.status = "completed"
           /\ f.type = "file"
           /\ f.filename = r.filename /\ f.size = r.size /\ f.hash = r.file_hash
           /\ out' = {[to |-> user_websockets[TypedTarget(line)], frame |-> f],
                      [to |-> w, frame |-> FileSent(r.filename, r.size, r.receiver, w)]}
C21FileDeliveryOnline == [][C21StepOnline]_vars

\* C22: the file frame written for a /file line carries the file name and
\* the base64 payload exactly as the sender typed them, and its hash is the
\* SHA-256 of the bytes that payload encodes.
C22Step ==
  \A w \in Conns : \A line \in ValidFileLines :
    ReceivedLine(w, line)
      => \A f \in {e.frame : e \in out'} :
           f.type = "file"
             => /\ f.filename = TypedName(line)
                /\ f.data = TypedData(line)
                /\ f.hash = Sha256(B64Decode(TypedData(line)).bytes)
C22FileVerbatim == [][C22Step]_vars

\* C23: a payload that decodes to exactly 10 MiB, sent to a target that is
\* online, is stored and written to the target with that size; a payload
\* one byte larger gets the size-limit response to the sender only, and
\* nothing is stored.
C23Step ==
  \A w \in Conns :
    /\ ReceivedLine(w, "/file bob a.txt;<10mb>") /\ Commits
       /\ "bob" \in DOMAIN user_websockets /\ alive[user_websockets["bob"]]
         => /\ \E r \in DOMAIN file_transfers' :
                 StoresTransfer(r) /\ r.size = 10 * 1024 * 1024
            /\ \E e \in out' : /\ e.to = user_websockets["bob"]
                               /\ e.frame.type = "file"
                               /\ e.frame.size = 10 * 1024 * 1024
                               /\ e.frame.data = "<10mb>"
    /\ ReceivedLine(w, "/file bob a.txt;<11mb>") /\ "bob" \in DOMAIN user_websockets
         => out' = {[to |-> w, frame |-> FileTooLarge(w)]} /\ NothingStored
MaxKeys == 3         \* keypairs generated in all
MaxEncrypt == 2      \* calls of encrypt_message in all

\* a console with nothing on it but the call that was made
Console(e, op, arg) == [by |-> e, op |-> op, arg |-> arg, printed |-> {}, asked |-> <<>>, result |-> <<>>]

(* ---- PEM material ---- *)
\* public_bytes(PEM, SubjectPublicKeyInfo) of the public key of keypair k
PublicPem(k) == [form |-> "pem", key |-> k]
\* private_bytes(PEM, PKCS8, NoEncryption) of the private key of keypair k
PrivatePem(k) == [form |-> "private", key |-> k]
\* what a /pubkey whisper can carry (/sendkey, lines 218-250, sends the PEM
\* text of the public key held in memory): that text as it was sent ("pem"),
\* with bytes in front of its header ("prefixed"), with its letters
\* lowercased ("lower"), or something that is no PEM text
Materials(public) ==
  {[form |-> f, key |-> k] : f \in {"pem", "prefixed", "lower"},
                             k \in IF public = NoKey THEN {} ELSE {public}}
    \cup {[form |-> "garbage", key |-> NoKey]}
\* serialization.load_pem_public_key: the key, or the exception it raises
LoadPem(m) == IF m.form = "pem" THEN [ok |-> TRUE, key |-> m.key] ELSE [ok |-> FALSE, key |-> NoKey]
\* add_peer_key lines 100-121: the material handed to load_pem_public_key,
\* or the ValueError raised before it. The slice of line 110 keeps the
\* original letters, so a lowercased header stays lowercased.
RepairPem(m) ==
  CASE m.form = "pem"      -> [ok |-> TRUE, pem |-> m]
    [] m.form = "prefixed" -> [ok |-> TRUE, pem |-> PublicPem(m.key)]
    [] m.form = "lower"    -> [ok |-> TRUE, pem |-> m]
    [] OTHER               -> [ok |-> FALSE, pem |-> m]
\* lines 100-127 together: the public key and the bytes that would be saved
ParsePeerKey(m) ==
  LET r == RepairPem(m)
      l == LoadPem(r.pem)
  IN  IF r.ok /\ l.ok THEN [ok |-> TRUE, key |-> l.key, pem |-> r.pem]
      ELSE [ok |-> FALSE, key |-> NoKey, pem |-> r.pem]

\* for comparison: the entry assigned before the material is loaded
PeerKeysAssignedFirst(pk, u, parsed) == (u :> parsed.key) @@ pk
\* line 129, reached only when nothing was raised before it
PeerKeysAssigned(pk, u, parsed) == IF parsed.ok THEN (u :> parsed.key) @@ pk ELSE pk
\* lines 132-134, reached only when nothing was raised before them
PeerFileWritten(dir, u, parsed) ==
  IF parsed.ok THEN [dir EXCEPT !.peer = (u :> parsed.pem) @@ dir.peer] ELSE dir

\* load_peer_key: the key it returns (NoKey for None)
LoadPeerKey(pk, dir, u) ==
  IF u \in DOMAIN pk THEN pk[u]
  ELSE IF u \in DOMAIN dir.peer THEN LoadPem(dir.peer[u]).key
  ELSE NoKey
\* load_peer_key: self.peer_keys after the call (line 157)
PeerKeysLoaded(pk, dir, u) ==
  IF u \notin DOMAIN pk /\ u \in DOMAIN dir.peer THEN (u :> LoadPem(dir.peer[u]).key) @@ pk ELSE pk

(* ---- the key pair ---- *)
HasKeyFiles(dir) == dir.private # NoFile /\ dir.public # NoFile

\* generate_keypair: rsa.generate_private_key returns a key pair that no
\* earlier call returned; keypair k is the k-th one generated
GenerateKeypair(gen) == gen + 1

\* load_or_generate_keypair(username) of a new EncryptionManager: the key
\* pair in memory, the key directory and the PEM texts returned
LoadOrGenerateKeypair(dir, gen) ==
  IF HasKeyFiles(dir)
  THEN [private |-> dir.private.key, public |-> dir.public.key, dir |-> dir, gen |-> gen,
        pems |-> <<dir.private, dir.public>>]
  ELSE LET k == GenerateKeypair(gen)
       IN  [private |-> k, public |-> k,
            dir |-> [dir EXCEPT !.private = PrivatePem(k), !.public = PublicPem(k)],
            gen |-> k, pems |-> <<PrivatePem(k), PublicPem(k)>>]

\* ChatClient.__init__: a client process of user e starts. avail is
\* ENCRYPTION_AVAILABLE, false when the import of the engine failed.
StartClient(e, avail) ==
  /\ ~running[e]
  /\ running' = [running EXCEPT ![e] = TRUE]
  /\ IF avail
     THEN LET r == LoadOrGenerateKeypair(keys_dir[e], generated)
          IN  /\ r.gen <= MaxKeys
              /\ private_key' = [private_key EXCEPT ![e] = r.private]
              /\ public_key' = [public_key EXCEPT ![e] = r.public]
              /\ keys_dir' = [keys_dir EXCEPT ![e] = r.dir]
              /\ generated' = r.gen
              /\ encryption_enabled' = [encryption_enabled EXCEPT ![e] = TRUE]
              /\ console' = [Console(e, "start", <<avail>>) EXCEPT
                               !.printed = {"End-to-end encryption is available."},
                               !.result = r.pems]
     ELSE /\ encryption_enabled' = [encryption_enabled EXCEPT ![e] = FALSE]
          /\ console' = Console(e, "start", <<avail>>)
          /\ UNCHANGED <<private_key, public_key, keys_dir, generated>>
  /\ websocket_sent' = <<>>
  /\ UNCHANGED <<peer_keys, downloads, urandom, envelopes, encrypt_typed, svrVars, conVars>>

\* the client process of user e ends: what it held in memory is gone
StopClient(e) ==
  /\ running[e]
  /\ running' = [running EXCEPT ![e] = FALSE]
  /\ encryption_enabled' = [encryption_enabled EXCEPT ![e] = FALSE]
  /\ private_key' = [private_key EXCEPT ![e] = NoKey]
  /\ public_key' = [public_key EXCEPT ![e] = NoKey]
  /\ peer_keys' = [peer_keys EXCEPT ![e] = <<>>]
  /\ websocket_sent' = <<>>
  /\ console' = Console(e, "stop", <<>>)
  /\ encrypt_typed' = [encrypt_typed EXCEPT ![e] = {}]
  /\ UNCHANGED <<keys_dir, downloads, generated, urandom, envelopes, svrVars, conVars>>

\* send_messages lines 208-216: the line /keygen
Keygen(e) ==
  /\ running[e] /\ encryption_enabled[e]
  /\ generated < MaxKeys
  /\ LET k == GenerateKeypair(generated)
     IN  /\ private_key' = [private_key EXCEPT ![e] = k]
         /\ public_key' = [public_key EXCEPT ![e] = k]
         /\ generated' = k
  /\ websocket_sent' = <<>>
  /\ console' = [Console(e, "/keygen", <<>>) EXCEPT !.printed = {"New encryption keys generated."}]
  /\ UNCHANGED <<running, encryption_enabled, peer_keys, keys_dir, downloads, urandom, envelopes, encrypt_typed, svrVars, conVars>>

\* display_message lines 431-456: a whisper of user from whose content is
\* "/pubkey " and the material m. Without an engine the call raises
\* AttributeError, which the handler prints like any other error.
ReceivePubkey(e, from, m) ==
  /\ running[e]
  /\ IF encryption_enabled[e]
     THEN LET parsed == ParsePeerKey(m)
          IN  /\ peer_keys' = [peer_keys EXCEPT ![e] = PeerKeysAssigned(@, from, parsed)]
              /\ keys_dir' = [keys_dir EXCEPT ![e] = PeerFileWritten(@, from, parsed)]
              /\ console' = [Console(e, "pubkey", <<from, m>>) EXCEPT
                               !.printed = IF parsed.ok THEN {"Received public key"}
                                           ELSE {"Error processing public key"},
                               !.result = <<parsed.ok>>]
     ELSE /\ console' = [Console(e, "pubkey", <<from, m>>) EXCEPT
                           !.printed = {"Error processing public key"}, !.result = <<FALSE>>]
          /\ UNCHANGED <<peer_keys, keys_dir>>
  /\ websocket_sent' = <<>>
  /\ UNCHANGED <<running, encryption_enabled, private_key, public_key, downloads, generated,
                 urandom, envelopes, encrypt_typed, svrVars, conVars>>

(* ---- bytes, UTF-8 and base64 ---- *)
\* a text is the sequence of its code points: "h" and "é"
Texts == {<<104>>, <<233>>}
RECURSIVE Xor(_, _)
\* a ^ b on naturals
Xor(a, b) == IF a = 0 /\ b = 0 THEN 0 ELSE ((a + b) % 2) + 2 * Xor(a \div 2, b \div 2)

RECURSIVE Utf8Encode(_)
\* str.encode('utf-8') for code points below 65536 outside the surrogates
Utf8Encode(text) ==
  IF text = <<>> THEN <<>>
  ELSE LET cp == Head(text)
           bs == IF cp < 128 THEN <<cp>>
                 ELSE IF cp < 2048 THEN <<192 + (cp \div 64), 128 + (cp % 64)>>
                 ELSE <<224 + (cp \div 4096), 128 + ((cp \div 64) % 64), 128 + (cp % 64)>>
       IN  bs \o Utf8Encode(Tail(text))
\* for comparison: one byte per code point
MessageBytesLatin1(message) == message
\* encrypt_message line 193
MessageBytes(message) == Utf8Encode(message)

IsCont(bytes, i) == i <= Len(bytes) /\ bytes[i] \in 128..191
Undecodable == [ok |-> FALSE, text |-> <<>>]
RECURSIVE Utf8Decode(_)
\* bytes.decode('utf-8'): the text, or UnicodeDecodeError
Utf8Decode(bytes) ==
  IF bytes = <<>> THEN [ok |-> TRUE, text |-> <<>>]
  ELSE LET b == bytes[1]
           n == IF b < 128 THEN 1
                ELSE IF b \in 194..223 /\ IsCont(bytes, 2) THEN 2
                ELSE IF b \in 224..239 /\ IsCont(bytes, 2) /\ IsCont(bytes, 3) THEN 3
                ELSE IF b \in 240..244 /\ IsCont(bytes, 2) /\ IsCont(bytes, 3) /\ IsCont(bytes, 4) THEN 4
                ELSE 0
           cp == CASE n = 1 -> b
                   [] n = 2 -> (b - 192) * 64 + (bytes[2] - 128)
                   [] n = 3 -> (b - 224) * 4096 + (bytes[2] - 128) * 64 + (bytes[3] - 128)
                   [] n = 4 -> (b - 240) * 262144 + (bytes[2] - 128) * 4096
                                 + (bytes[3] - 128) * 64 + (bytes[4] - 128)
                   [] OTHER -> 0
           wellFormed == \/ n \in {1, 2}
                         \/ n = 3 /\ cp >= 2048 /\ cp \notin 55296..57343
                         \/ n = 4 /\ cp \in 65536..1114111
       IN  IF ~wellFormed THEN Undecodable
           ELSE LET r == Utf8Decode(SubSeq(bytes, n + 1, Len(bytes)))
                IN  IF r.ok THEN [ok |-> TRUE, text |-> <<cp>> \o r.text] ELSE Undecodable

\* a base64 text is the sequence of its characters: 0..63 for the letters of
\* the alphabet, Pad for "=", NonAlphabet for any other character
Pad == 64
NonAlphabet == 65
RECURSIVE B64Encode(_)
\* base64.b64encode
B64Encode(b) ==
  IF Len(b) = 0 THEN <<>>
  ELSE IF Len(b) = 1 THEN <<b[1] \div 4, (b[1] % 4) * 16, Pad, Pad>>
  ELSE IF Len(b) = 2 THEN <<b[1] \div 4, ((b[1] % 4) * 16) + (b[2] \div 16), (b[2] % 16) * 4, Pad>>
  ELSE <<b[1] \div 4, ((b[1] % 4) * 16) + (b[2] \div 16), ((b[2] % 16) * 4) + (b[3] \div 64), b[3] % 64>>
         \o B64Encode(SubSeq(b, 4, Len(b)))
RECURSIVE B64Groups(_)
\* the bytes of groups of four characters whose padding is at the end; the
\* bits of the last letter that belong to no byte are dropped
B64Groups(s) ==
  IF s = <<>> THEN <<>>
  ELSE LET one == <<(s[1] * 4) + (s[2] \div 16)>>
           two == <<((s[2] % 16) * 16) + (s[3] \div 4)>>
           three == <<((s[3] % 4) * 64) + s[4]>>
       IN  IF s[3] = Pad THEN one
           ELSE IF s[4] = Pad THEN one \o two
           ELSE one \o two \o three \o B64Groups(SubSeq(s, 5, Len(s)))
\* base64.b64decode(s) without validate: characters outside the alphabet are
\* discarded, and what is left must be whole groups of four
B64DecodeText(s) ==
  LET d == SelectSeq(s, LAMBDA c : c # NonAlphabet)
  IN  IF Len(d) % 4 # 0 THEN [ok |-> FALSE, bytes |-> <<>>]
      ELSE [ok |-> TRUE, bytes |-> B64Groups(d)]

(* ---- encrypt_message and decrypt_message ---- *)
AesKeys == 1..MaxEncrypt      \* the values os.urandom(32) can return
Ivs == 1..MaxEncrypt          \* the values os.urandom(16) can return
\* for comparison: a value os.urandom returned before is kept
ReusedRandom(pool, drawn) == IF drawn = {} THEN pool ELSE drawn
\* os.urandom(n): a value it has not returned before; the values are named
\* in the order in which they are first returned. The operating system's
\* generator repeating a value of 16 or 32 bytes is not modelled.
OsUrandom(pool, drawn) == {x \in pool \ drawn : \A y \in pool \ drawn : x <= y}
\* byte i of the AES-CFB keystream of a message of at most one block, which
\* is byte i of AES_key(iv): some fixed function of key, IV and position
KeystreamByte(key, iv, i) == (key * 89 + iv * 57 + i * 31 + 7) % 256
\* encryptor.update / decryptor.update in CFB mode on at most one block
Cfb(key, iv, bytes) == [i \in 1..Len(bytes) |-> Xor(bytes[i], KeystreamByte(key, iv, i))]
\* encrypt_message lines 168-204 for the recipient's key, the AES key and
\* the IV drawn: the package. RSA-OAEP under public key pk is opened by the
\* private key of the same keypair only.
EncryptMessage(message, recipient_key, aes_key, iv) ==
  [encrypted_key |-> [pk |-> recipient_key, aes |-> aes_key],
   iv |-> iv,
   ciphertext |-> B64Encode(Cfb(aes_key, iv, MessageBytes(message)))]
NoText == [none |-> TRUE, text |-> <<>>]
\* decrypt_message: the text, or NoText for None
DecryptMessage(priv, package) ==
  IF priv = NoKey \/ package.encrypted_key.pk # priv THEN NoText
  ELSE LET ct == B64DecodeText(package.ciphertext)
           t == Utf8Decode(Cfb(package.encrypted_key.aes, package.iv, ct.bytes))
       IN  IF ct.ok /\ t.ok THEN [none |-> FALSE, text |-> t.text] ELSE NoText

(* ---- the client's whisper lines ---- *)
\* a line "/w <target> <content>" or "/whisper <target> <content>" is the
\* record of its parts after message.split(" ", 2); a line of two parts has
\* no content field. The content is a text, or "/pubkey " and a PEM text.
TextContent(t) == [kind |-> "text", text |-> t]
PubkeyContent(m) == [kind |-> "pubkey", pem |-> m]
\* "[ENCRYPTED]" followed by json.dumps of the package
EncryptedContent(package) == [kind |-> "[ENCRYPTED]", package |-> package]
ClientWhisperLines(e, public) ==
  {[cmd |-> c, target |-> u, content |-> x] :
      c \in {"/w", "/whisper"}, u \in Engines \ {e},
      x \in {TextContent(t) : t \in Texts} \cup
            (IF public = NoKey THEN {} ELSE {PubkeyContent(PublicPem(public))})}
    \cup {[cmd |-> c, target |-> u] : c \in {"/w", "/whisper"}, u \in Engines \ {e}}
HasContent(line) == "content" \in DOMAIN line

\* for comparison: line 339 without its continue
SentFallingThrough(encrypted_message, message) == <<encrypted_message, message>>
\* lines 338-339: the encrypted whisper is sent and the loop continues
SentEncrypted(encrypted_message, message) == <<encrypted_message>>

\* send_messages lines 316-348 for a whisper line. Line 317 reads
\* (encryption_enabled and "/whisper ") or "/w ": a "/w " line enters the
\* block without an engine, where line 331 raises AttributeError, which line
\* 358 prints; the line is not sent.
SendWhisper(e, line) ==
  /\ running[e]
  /\ LET enters == (encryption_enabled[e] /\ line.cmd = "/whisper") \/ line.cmd = "/w"
         key == LoadPeerKey(peer_keys[e], keys_dir[e], line.target)
         plain == /\ websocket_sent' = <<line>>
                  /\ console' = Console(e, "whisper", <<line>>)
                  /\ UNCHANGED <<urandom, envelopes>>
     IN  IF ~(enters /\ HasContent(line)) THEN plain /\ UNCHANGED peer_keys
         ELSE IF line.content.kind = "pubkey" THEN plain /\ UNCHANGED peer_keys
         ELSE IF ~encryption_enabled[e]
           THEN /\ websocket_sent' = <<>>
                /\ console' = [Console(e, "whisper", <<line>>) EXCEPT
                                 !.printed = {"Error sending message"}]
                /\ UNCHANGED <<peer_keys, urandom, envelopes>>
         ELSE /\ peer_keys' = [peer_keys EXCEPT ![e] = PeerKeysLoaded(@, keys_dir[e], line.target)]
              /\ IF key = NoKey THEN plain
                 ELSE /\ Len(envelopes) < MaxEncrypt
                      /\ \E aes_key \in OsUrandom(AesKeys, urandom.key),
                            iv \in OsUrandom(Ivs, urandom.iv) :
                           LET package == EncryptMessage(line.content.text, key, aes_key, iv)
                               encrypted_message == [line EXCEPT !.content = EncryptedContent(package)]
                           IN  /\ urandom' = [key |-> urandom.key \cup {aes_key},
                                              iv |-> urandom.iv \cup {iv}]
                               /\ envelopes' = Append(envelopes,
                                    [by |-> e, message |-> line.content.text,
                                     recipient |-> line.target, package |-> package])
                               /\ websocket_sent' = SentEncrypted(encrypted_message, line)
                               /\ console' = Console(e, "whisper", <<line>>)
  /\ UNCHANGED <<running, encryption_enabled, private_key, public_key, keys_dir, downloads,
                 generated, encrypt_typed, svrVars, conVars>>

\* send_messages lines 253-267: the line "/encrypt <target>". It prints
\* whether a key of the target is on file and changes nothing but the
\* cache of load_peer_key; without an engine the line is sent to the
\* server like any other (line 348).
EncryptLine(e, target) ==
  /\ running[e]
  /\ IF encryption_enabled[e]
     THEN /\ peer_keys' = [peer_keys EXCEPT ![e] = PeerKeysLoaded(@, keys_dir[e], target)]
          /\ websocket_sent' = <<>>
          /\ console' = [Console(e, "/encrypt", <<target>>) EXCEPT
                !.printed = IF LoadPeerKey(peer_keys[e], keys_dir[e], target) # NoKey
                            THEN {"End-to-end encryption enabled for"}
                            ELSE {"No public key found for"}]
     ELSE /\ websocket_sent' = <<[cmd |-> "/encrypt", target |-> target]>>
          /\ console' = Console(e, "/encrypt", <<target>>)
          /\ UNCHANGED peer_keys
  /\ encrypt_typed' = [encrypt_typed EXCEPT ![e] = @ \cup {target}]
  /\ UNCHANGED <<running, encryption_enabled, private_key, public_key, keys_dir, downloads,
                 generated, urandom, envelopes, svrVars, conVars>>

(* ---- a whisper frame whose content starts with [ENCRYPTED] ---- *)
\* the ways one character of the ciphertext field is changed on the way:
\* position 0 is no change; a letter is replaced by another letter or by a
\* character outside the alphabet. The padding is left as it is.
Changes(package) ==
  {<<0, 0>>} \cup
  UNION {{<<i, Xor(package.ciphertext[i], 1)>>, <<i, Xor(package.ciphertext[i], 32)>>,
          <<i, NonAlphabet>>} :
            i \in {j \in 1..Len(package.ciphertext) : package.ciphertext[j] # Pad}}
Changed(package, ch) ==
  IF ch[1] = 0 THEN package ELSE [package EXCEPT !.ciphertext[ch[1]] = ch[2]]

\* display_message lines 393-428: the n-th package produced arrives at the
\* client of e in a whisper of user from, changed by ch on the way
ReceiveEncrypted(e, from, n, ch) ==
  /\ running[e]
  /\ n \in 1..Len(envelopes)
  /\ ch \in Changes(envelopes[n].package)
  /\ LET package == Changed(envelopes[n].package, ch)
         decrypted_content == DecryptMessage(private_key[e], package)
     IN  console' = [Console(e, "encrypted", <<from, n, ch>>) EXCEPT
                       !.printed = IF ~encryption_enabled[e] THEN {"[Whisper]"}
                                   ELSE IF decrypted_content.none THEN {"Failed to decrypt message"}
                                   ELSE {"[Whisper] decrypted"},
                       !.result = IF encryption_enabled[e] THEN <<decrypted_content>> ELSE <<>>]
  /\ websocket_sent' = <<>>
  /\ UNCHANGED <<running, encryption_enabled, private_key, public_key, peer_keys, keys_dir,
                 downloads, generated, urandom, envelopes, encrypt_typed, svrVars, conVars>>

(* ---- a file frame ---- *)
\* the data fields a file frame can carry: the base64 text of the bytes of
\* "ABC", and one whose padding is missing
FileDatas == {B64Encode(<<65, 66, 67>>), <<16, 20, 9>>}
\* the hash fields: of the bytes of "ABC" and of other bytes
FileHashes == {Sha256(<<65, 66, 67>>), Sha256(<<65>>)}
FileFrames == [filename : {"a.txt"}, data : FileDatas, hash : FileHashes]

\* for comparison: the file is kept whatever the answer
SaveAnywayWhatever(verify) == TRUE
\* lines 500-504: Prompt.ask("Save anyway?") and its test
SaveAnyway(verify) == verify = "y"

\* display_message lines 467-520: a file frame arrives at the client of e;
\* save and verify are the receiver's answers to the prompts, if asked
ReceiveFile(e, f, save, verify) ==
  /\ running[e]
  /\ LET c == Console(e, "file", <<f>>)
         decoded == B64DecodeText(f.data)
         mismatch == Sha256(decoded.bytes) # f.hash
     IN  IF save # "y"
         THEN /\ console' = [c EXCEPT !.printed = {"[File]", "File not saved."},
                                      !.asked = <<<<"Save file?", save>>>>]
              /\ UNCHANGED downloads
         ELSE IF ~decoded.ok
         THEN /\ console' = [c EXCEPT !.printed = {"[File]", "Error saving file"},
                                      !.asked = <<<<"Save file?", save>>>>]
              /\ UNCHANGED downloads
         ELSE IF mismatch /\ ~SaveAnyway(verify)
         THEN /\ console' = [c EXCEPT
                   !.printed = {"[File]", "Warning: File integrity check failed!", "File not saved."},
                   !.asked = <<<<"Save file?", save>>, <<"Save anyway?", verify>>>>]
              /\ UNCHANGED downloads
         ELSE /\ console' = [c EXCEPT
                   !.printed = {"[File]", "File saved"} \cup
                               (IF mismatch THEN {"Warning: File integrity check failed!"} ELSE {}),
                   !.asked = IF mismatch THEN <<<<"Save file?", save>>, <<"Save anyway?", verify>>>>
                             ELSE <<<<"Save file?", save>>>>,
                   !.result = <<decoded.bytes>>]
              /\ downloads' = [downloads EXCEPT ![e] = (f.filename :> decoded.bytes) @@ @]
  /\ websocket_sent' = <<>>
  /\ UNCHANGED <<running, encryption_enabled, private_key, public_key, peer_keys, keys_dir,
                 generated, urandom, envelopes, encrypt_typed, svrVars, conVars>>

(* ---- the clients as a system ---- *)
\* ann and bob run the same client; the whispers looked at are ann's to
\* bob, and so are the files, and the public keys are bob's to ann
Senders == {"ann"}
Receivers == {"bob"}
\* the import of the engine can fail where ann's client runs
Availability(e) == IF e \in Senders THEN BOOLEAN ELSE {TRUE}
ClientNext ==
  \/ \E e \in Engines : \E avail \in Availability(e) : StartClient(e, avail)
  \/ \E e \in Engines : StopClient(e)
  \/ \E e \in Engines : Keygen(e)
  \/ \E e \in Senders, from \in Receivers :
       \E m \in Materials(public_key[from]) : ReceivePubkey(e, from, m)
  \/ \E e \in Senders : \E line \in ClientWhisperLines(e, public_key[e]) : SendWhisper(e, line)
  \/ \E e \in Senders, target \in Receivers : EncryptLine(e, target)
  \/ \E e \in Receivers, from \in Senders, n \in 1..Len(envelopes) :
       \E ch \in Changes(envelopes[n].package) : ReceiveEncrypted(e, from, n, ch)
  \/ \E e \in Receivers, f \in FileFrames, save \in {"y", "n"}, verify \in {"y", "n"} :
       ReceiveFile(e, f, save, verify)
ClientSpec == Init /\ [][ClientNext]_vars
ClientTypeOK ==
  /\ running \in [Engines -> BOOLEAN]
  /\ encryption_enabled \in [Engines -> BOOLEAN]
  /\ private_key \in [Engines -> 0..MaxKeys]
  /\ public_key = private_key
  /\ generated \in 0..MaxKeys
  /\ Len(envelopes) <= MaxEncrypt
  /\ urandom.key \subseteq AesKeys /\ urandom.iv \subseteq Ivs

(* ------------------- properties of the client and engine --------------- *)
\* the last step was the client's handling of a file frame
FileStep == console'.op = "file"
ReceivedFile == console'.arg[1]
\* the bytes of the frame's data and whether their SHA-256 is the frame's hash
ReceivedBytes == B64DecodeText(ReceivedFile.data)
HashDiffers == ReceivedBytes.ok /\ Sha256(ReceivedBytes.bytes) # ReceivedFile.hash
HashMatches == ReceivedBytes.ok /\ Sha256(ReceivedBytes.bytes) = ReceivedFile.hash
Written == console'.result # <<>>
Warned == "Warning: File integrity check failed!" \in console'.printed
Answered(prompt, answer) == \E i \in 1..Len(console'.asked) : console'.asked[i] = <<prompt, answer>>

\* C24: on the receiving client a file whose recomputed SHA-256 differs from
\* the advertised hash is written only when the integrity warning was shown
\* and the receiver answered "y" to "Save anyway?", and when it is not
\* written the client says so; a file whose hash matches is written, once
\* and with the received bytes, exactly when the receiver accepts the save
\* prompt; nothing else touches the downloads.
C24Step ==
  FileStep =>
    LET e == console'.by
        name == ReceivedFile.filename
    IN  /\ HashDiffers /\ Written =>
             /\ Warned
             /\ Answered("Save file?", "y") /\ Answered("Save anyway?", "y")
        /\ HashDiffers /\ ~Written =>
             /\ "File not saved." \in console'.printed
             /\ Answered("Save file?", "y") => Warned /\ Answered("Save anyway?", "n")
        /\ HashMatches => (Written <=> Answered("Save file?", "y"))
        /\ HashMatches => ~Warned /\ Len(console'.asked) = 1
        /\ Written => /\ console'.result = <<ReceivedBytes.bytes>>
                      /\ downloads' = [downloads EXCEPT ![e] = (name :> ReceivedBytes.bytes) @@ @]
        /\ ~Written => downloads' = downloads
C24FileIntegrity == [][C24Step]_vars
\* a file whose hash differs was kept after the warning and the receiver's "y"
C24Witness ==
  /\ console.op = "file"
  /\ "Warning: File integrity check failed!" \in console.printed
  /\ console.result = <<<<65, 66, 67>>>>
  /\ console.arg[1].hash = Sha256(<<65>>)
  /\ downloads[console.by]["a.txt"] = <<65, 66, 67>>


\* the last step was the client's handling of an encrypted whisper by a
\* client that has an engine
DecryptStep == console'.op = "encrypted" /\ encryption_enabled[console'.by]
\* the call of encrypt_message whose package arrived, and how it was changed
ArrivedCall == envelopes[console'.arg[2]]
ArrivedChange == console'.arg[3]
\* the package was made for the key pair the receiving engine holds
ForHolder == /\ ArrivedCall.recipient = console'.by
             /\ ArrivedCall.package.encrypted_key.pk = public_key[console'.by]
             /\ private_key[console'.by] # NoKey

\* C25: decrypt_message on the peer's engine, applied to what
\* encrypt_message(M, peer) returned on the engine of a sender that imported
\* the public key of the key pair the peer holds, returns exactly M.
C25Step ==
  DecryptStep /\ ForHolder /\ ArrivedChange[1] = 0 =>
    console'.result = <<[none |-> FALSE, text |-> ArrivedCall.message]>>
C25RoundTrip == [][C25Step]_vars
\* "é", of two bytes in UTF-8, came back from the peer's engine
C25Witness ==
  /\ console.op = "encrypted" /\ console.arg[3][1] = 0
  /\ envelopes[console.arg[2]].message = <<233>>
  /\ console.result = <<[none |-> FALSE, text |-> <<233>>]>>

\* C26: when one character of the ciphertext field of a package made by
\* encrypt_message(M, peer) is changed, the peer's decrypt_message returns
\* None.
C26Step ==
  DecryptStep /\ ForHolder /\ ArrivedChange[1] # 0 => console'.result = <<NoText>>
C26TamperRejected == [][C26Step]_vars
\* side check of C26: a changed ciphertext never comes back as M
C26StepNotM ==
  DecryptStep /\ ForHolder /\ ArrivedChange[1] # 0 =>
    console'.result # <<[none |-> FALSE, text |-> ArrivedCall.message]>>
C26TamperNotM == [][C26StepNotM]_vars


\* C27: across the calls of encrypt_message made so far no AES key and no
\* IV was used by two calls, and no two calls returned the same package,
\* in particular not two calls with the same message for the same peer.
C27FreshKeyAndIv ==
  \A i, j \in 1..Len(envelopes) :
    i < j => /\ envelopes[i].package.encrypted_key.aes # envelopes[j].package.encrypted_key.aes
             /\ envelopes[i].package.iv # envelopes[j].package.iv
             /\ envelopes[i].package # envelopes[j].package
\* the same message was encrypted twice for the same peer and key
C27Witness ==
  /\ Len(envelopes) = 2
  /\ envelopes[1].message = envelopes[2].message
  /\ envelopes[1].recipient = envelopes[2].recipient
  /\ envelopes[1].package.encrypted_key.pk = envelopes[2].package.encrypted_key.pk
  /\ envelopes[1].package.ciphertext # envelopes[2].package.ciphertext


\* C28: the key pair an engine holds in memory is the one persisted for its
\* user, after any sequence of client operations (including /keygen).
C28MemoryIsPersisted ==
  \A e \in Engines :
    running[e] /\ encryption_enabled[e] =>
      /\ keys_dir[e].private = PrivatePem(private_key[e])
      /\ keys_dir[e].public = PublicPem(public_key[e])
\* side check of C28: once the key files of a user are written they never
\* change, and a later load_or_generate_keypair returns what they hold
C28StepGenerateOnce ==
  \A e \in Engines :
    keys_dir[e].private # NoFile =>
      /\ keys_dir'[e].private = keys_dir[e].private
      /\ keys_dir'[e].public = keys_dir[e].public
      /\ console'.op = "start" /\ console'.by = e /\ encryption_enabled'[e] =>
           console'.result = <<keys_dir[e].private, keys_dir[e].public>>
C28GenerateOnce == [][C28StepGenerateOnce]_vars


\* the last step was add_peer_key, called for a /pubkey whisper
PubkeyStep == console'.op = "pubkey" /\ encryption_enabled[console'.by]
\* material that is the PEM text of a key, possibly after bytes that do not
\* belong to it; any other material cannot be parsed
Parsable(m) == m.form \in {"pem", "prefixed"}

\* C29: add_peer_key(username, material) on material that cannot be parsed
\* fails and leaves the peer keys in memory and on disk as they were; on
\* parsable material the key is stored in memory and on disk, and
\* load_peer_key(username) returns it, in this process and in a later one.
C29Step ==
  PubkeyStep =>
    LET e == console'.by
        u == console'.arg[1]
        m == console'.arg[2]
    IN  /\ ~Parsable(m) => /\ console'.result = <<FALSE>>
                           /\ "Error processing public key" \in console'.printed
                           /\ peer_keys' = peer_keys
                           /\ keys_dir' = keys_dir
        /\ Parsable(m) => /\ console'.result = <<TRUE>>
                          /\ u \in DOMAIN peer_keys'[e] /\ peer_keys'[e][u] = m.key
                          /\ keys_dir'[e].peer[u] = PublicPem(m.key)
                          /\ LoadPeerKey(peer_keys'[e], keys_dir'[e], u) = m.key
                          /\ LoadPeerKey(<<>>, keys_dir'[e], u) = m.key
C29PeerKeyStore == [][C29Step]_vars
\* lowercased material was refused while an earlier key of the same user is
\* still held in memory and on disk
C29Witness ==
  /\ console.op = "pubkey" /\ console.result = <<FALSE>>
  /\ console.arg[2].form = "lower"
  /\ console.arg[1] \in DOMAIN peer_keys[console.by]
  /\ peer_keys[console.by][console.arg[1]] # console.arg[2].key
  /\ keys_dir[console.by].peer[console.arg[1]] = PublicPem(peer_keys[console.by][console.arg[1]])


\* the last step was the client's handling of a typed whisper line
WhisperStep == console'.op = "whisper"
TypedLine == console'.arg[1]
\* the line has a text, a peer key for its target is on file, and the
\* client has an engine to encrypt with
Encryptable ==
  /\ HasContent(TypedLine) /\ TypedLine.content.kind = "text"
  /\ encryption_enabled[console'.by]
  /\ LoadPeerKey(peer_keys[console'.by], keys_dir[console'.by], TypedLine.target) # NoKey

\* C30: for a "/whisper <target> <text>" or "/w <target> <text>" line with
\* a peer key for the target on file the client sends exactly one frame,
\* "<cmd> <target> [ENCRYPTED]<envelope>", whose envelope is the package
\* encrypt_message has just returned for that text and that peer's key; no
\* frame carries the text.
C30Step ==
  WhisperStep /\ Encryptable =>
    LET e == console'.by
        key == LoadPeerKey(peer_keys[e], keys_dir[e], TypedLine.target)
    IN  /\ Len(websocket_sent') = 1
        /\ Len(envelopes') = Len(envelopes) + 1
        /\ LET call == envelopes'[Len(envelopes')]
               frame == websocket_sent'[1]
           IN  /\ call.by = e /\ call.message = TypedLine.content.text
               /\ call.recipient = TypedLine.target
               /\ call.package.encrypted_key.pk = key
               /\ frame.cmd = TypedLine.cmd /\ frame.target = TypedLine.target
               /\ frame.content = EncryptedContent(call.package)
               /\ DecryptMessage(key, call.package) = [none |-> FALSE, text |-> call.message]
        /\ \A i \in 1..Len(websocket_sent') : websocket_sent'[i].content.kind # "text"
C30EncryptedWhisperOnly == [][C30Step]_vars
\* a "/w" line went out as one encrypted frame
C30Witness ==
  /\ console.op = "whisper" /\ console.arg[1].cmd = "/w"
  /\ HasContent(console.arg[1]) /\ console.arg[1].content.kind = "text"
  /\ Len(websocket_sent) = 1
  /\ websocket_sent[1].cmd = "/w"
  /\ websocket_sent[1].content.kind = "[ENCRYPTED]"


\* C40: without an engine (encryption_enabled false, no encryption manager)
\* a "/w <user> <text>" line and a "/whisper <user> <text>" line are each
\* sent to the server unchanged as exactly one frame.
C40Step ==
  /\ WhisperStep /\ ~encryption_enabled[console'.by]
  /\ HasContent(TypedLine) /\ TypedLine.content.kind = "text"
  => websocket_sent' = <<TypedLine>>
C40AliasWithoutEngine == [][C40Step]_vars
\* the same for the long form only
C40StepLong ==
  /\ WhisperStep /\ ~encryption_enabled[console'.by]
  /\ HasContent(TypedLine) /\ TypedLine.content.kind = "text"
  /\ TypedLine.cmd = "/whisper"
  => websocket_sent' = <<TypedLine>> /\ console'.printed = {}
C40LongFormWithoutEngine == [][C40StepLong]_vars


\* C39: an outgoing whisper to a user is encrypted only if the local user
\* has typed "/encrypt <user>" before; holding the user's public key does
\* not by itself make whispers to that user encrypted.
C39Step ==
  /\ WhisperStep /\ HasContent(TypedLine)
  /\ \E i \in 1..Len(websocket_sent') : websocket_sent'[i].content.kind = "[ENCRYPTED]"
  => TypedLine.target \in encrypt_typed[console'.by]
C39EncryptedOnlyAfterEncrypt == [][C39Step]_vars


(* ---------------------- further properties of the server --------------- *)
\* C32: whenever a registered session named u has an open connection, the
\* username-to-connection map has an entry for u, and the entry is a
\* registered session named u whose connection is open (so that a whisper or
\* file addressed to u is not answered "not online").
C32NamedSessionReachable ==
  \A w \in Conns :
    Registered(w) /\ alive[w] =>
      /\ username[w] \in DOMAIN user_websockets
      /\ LET t == user_websockets[username[w]]
         IN  Registered(t) /\ alive[t] /\ username[t] = username[w]


\* C33: a frame of a broadcast is written only to a connection whose session
\* has authenticated and is registered.
C33Step ==
  \A t \in Tasks, r \in Conns :
    Delivers(t, r) => Registered(r) /\ r \in OnlineDom(online_users)
C33BroadcastToRegisteredOnly == [][C33Step]_vars
\* the same for the members of self.clients that the gather was started with
C33StepRecipients ==
  \A t \in Tasks, r \in Conns :
    Delivers(t, r) => pc[r] # "closed"
C33BroadcastToConnected == [][C33StepRecipients]_vars


\* C36: whenever moderator_ws is not none, it is a member of self.clients
\* and of online_users, and its username there is the moderator's name.
C36ModeratorRegistered ==
  moderator_ws # None =>
    /\ moderator_ws \in clients
    /\ moderator_ws \in OnlineDom(online_users)
    /\ OnlineGet(online_users, moderator_ws) = moderator_username
\* the same once the handler of the holder has ended
C36ModeratorHandlerRuns == moderator_ws # None => pc[moderator_ws] # "closed"


\* the step writes the success confirmation of a whisper or of a file to w
Confirmed(w) ==
  \E e \in out' : /\ e.to = w
                  /\ \E u \in {"bob", "BOB"} :
                       \/ e.frame = WhisperSent(u, w)
                       \/ \E name \in {"a.txt", "A.txt", "test.txt"} : \E size \in 0..16 :
                            e.frame = FileSent(name, size, u, w)
\* the step writes a whisper or a file frame to some connection
TargetWritten == \E e \in out' : e.frame.type \in {"whisper", "file"}

\* C37: the step that receives a whisper or file line writes the success
\* confirmation to the sender only if it also writes the whisper or file
\* frame to the target, that is, only if the targeted send succeeded.
C37Step ==
  \A w \in Conns : \A line \in WhisperLines \cup FileLines :
    ReceivedLine(w, line) /\ Confirmed(w) => TargetWritten
C37ConfirmationOnlyIfDelivered == [][C37Step]_vars


(* ------------------------ runs on the same port ------------------------ *)
\* what one earlier run on this port left in the servers table: nothing (no
\* earlier run), a row marked inactive (it ended in shutdown(), lines
\* 137-140), or a row still marked active (it ended at lines 658-661 without
\* reaching shutdown(), or the commit of line 140 raised)
EarlierRuns == {<<>>, <<FALSE>>, <<TRUE>>}
RunsInit == \E earlier \in EarlierRuns : InitAfter(earlier)
RunsSpec == RunsInit /\ [][Next]_vars

\* C38: once shutdown() has returned, no row of the servers table of this
\* port is marked active, whatever earlier runs on the port left in the table.
C38NoActiveRowAfterShutdown ==
  mainpc = "returned" => \A i \in DOMAIN servers : ~servers[i]
\* the same for a server that is the first to run on its port
C38FirstRun ==
  mainpc = "returned" /\ Len(servers) = 1 => \A i \in DOMAIN servers : ~servers[i]


\* the step stores the leave message of the session of w (lines 342-352)
LeavePersisted(w) ==
  \E r \in DOMAIN messages' :
    /\ r.type = "leave" /\ r.by = w
    /\ r \in DOMAIN messages => messages'[r] > messages[r]
\* the step starts the broadcast of the leave notification of w (line 357)
LeaveBroadcast(w) == pc[w] # "leave_bcast" /\ pc'[w] = "leave_bcast"
\* the handler of w has stored its join message and started the broadcast of
\* its join notification (lines 296-310)
Joined(w) == pc[w] \in {"bcast", "loop"}

\* C35: a session's leave message is stored, and its leave notification is
\* broadcast, only after the session's join message was stored and its join
\* notification broadcast, also when the connection fails between
\* registration and the join broadcast.
C35Step ==
  \A w \in Conns : LeavePersisted(w) \/ LeaveBroadcast(w) => Joined(w)
C35LeaveAfterJoin == [][C35Step]_vars


\* the history replay of the session of r has begun and has frames left to
\* send (lines 376-392)
ReplayUnfinished(r) == pc[r] = "history" /\ hist[r] # <<>>

\* C34: no live broadcast frame is written to the connection of a joining
\* session while its history replay has frames left to send, so that on the
\* joiner's connection every replayed frame precedes every live frame.
C34Step ==
  \A t \in Tasks : \A r \in Conns : Delivers(t, r) => ~ReplayUnfinished(r)
C34ReplayBeforeLive == [][C34Step]_vars


(* ------------------- the client: one call of connect() ----------------- *)
MaxDisplayed == 2    \* frames the receive loop displays
MaxSent == 2         \* lines the send loop sends
MaxSendErrors == 2   \* sends that raise
ClientTasks == {"receive", "send"}
TaskState(t) == IF t = "receive" THEN receive_task ELSE send_task
\* the task is suspended at an await and no cancel() was called on it
Awaiting(t) == TaskState(t) = "pending" /\ t \notin cancel_called

\* lines 76-79 and 98-101: the connection is made, or refused
ConnectCall(ok) ==
  /\ connect_pc = "idle"
  /\ IF ok THEN websocket' = "open" /\ connect_pc' = "authenticate"
           ELSE connect_pc' = "returned" /\ UNCHANGED websocket
  /\ UNCHANGED <<receive_task, send_task, cancel_called, displayed, sent_lines, send_errors,
                 engVars, svrVars>>

\* lines 80-86: authenticate; on success both loops are started as tasks and
\* connect() waits for the first of them to finish; on failure connect()
\* returns through the exit of the async with, which closes the connection
Authenticate(ok) ==
  /\ connect_pc = "authenticate"
  /\ IF ok THEN /\ receive_task' = "pending"
                /\ send_task' = "pending"
                /\ connect_pc' = "wait"
                /\ UNCHANGED websocket
           ELSE /\ websocket' = "closed"
                /\ connect_pc' = "returned"
                /\ UNCHANGED <<receive_task, send_task>>
  /\ UNCHANGED <<cancel_called, displayed, sent_lines, send_errors, engVars, svrVars>>

\* receive_messages, lines 169-174: a frame arrives and is displayed
ReceiveFrame ==
  /\ Awaiting("receive")
  /\ websocket = "open"
  /\ displayed < MaxDisplayed
  /\ displayed' = displayed + 1
  /\ UNCHANGED <<connect_pc, websocket, receive_task, send_task, cancel_called, sent_lines,
                 send_errors, engVars, svrVars>>

\* the server closes the connection, or the transport fails
ConnectionCloses ==
  /\ websocket = "open"
  /\ connect_pc \in {"wait", "exit"}
  /\ websocket' = "closed"
  /\ UNCHANGED <<connect_pc, receive_task, send_task, cancel_called, displayed, sent_lines,
                 send_errors, engVars, svrVars>>

\* receive_messages, lines 169 and 175-176: the iteration ends on a closed
\* connection, or ConnectionClosed is caught; the coroutine returns
ReceiveEnds ==
  /\ Awaiting("receive")
  /\ websocket = "closed"
  /\ receive_task' = "done"
  /\ UNCHANGED <<connect_pc, websocket, send_task, cancel_called, displayed, sent_lines,
                 send_errors, engVars, svrVars>>

\* send_messages, lines 181-348: a line is typed and sent
SendLine ==
  /\ Awaiting("send")
  /\ websocket = "open"
  /\ sent_lines < MaxSent
  /\ sent_lines' = sent_lines + 1
  /\ UNCHANGED <<connect_pc, websocket, receive_task, send_task, cancel_called, displayed,
                 send_errors, engVars, svrVars>>

\* send_messages, lines 348 and 358-359: websocket.send raises on the closed
\* connection; the exception is printed and the loop prompts again
SendFails ==
  /\ Awaiting("send")
  /\ websocket = "closed"
  /\ send_errors < MaxSendErrors
  /\ send_errors' = send_errors + 1
  /\ UNCHANGED <<connect_pc, websocket, receive_task, send_task, cancel_called, displayed,
                 sent_lines, engVars, svrVars>>

\* send_messages, lines 348-357: /quit or /exit is sent, or the prompt is
\* interrupted; the loop closes the connection and breaks
Quit(how) ==
  /\ Awaiting("send")
  /\ how = "/quit" => websocket = "open"
  /\ websocket' = "closed"
  /\ send_task' = "done"
  /\ UNCHANGED <<connect_pc, receive_task, cancel_called, displayed, sent_lines, send_errors,
                 engVars, svrVars>>

\* lines 89-96: asyncio.wait returns when a task is done; cancel() is called
\* on the tasks still pending, and connect() goes on without awaiting them
WaitReturns ==
  /\ connect_pc = "wait"
  /\ \E t \in ClientTasks : TaskState(t) = "done"
  /\ cancel_called' = {t \in ClientTasks : TaskState(t) = "pending"}
  /\ connect_pc' = "exit"
  /\ UNCHANGED <<websocket, receive_task, send_task, displayed, sent_lines, send_errors,
                 engVars, svrVars>>

\* the event loop resumes a task on which cancel() was called: CancelledError
\* is raised at its await and ends it (neither except clause of lines
\* 175, 355 and 358 catches it)
CancelDelivered(t) ==
  /\ TaskState(t) = "pending"
  /\ t \in cancel_called
  /\ receive_task' = IF t = "receive" THEN "cancelled" ELSE receive_task
  /\ send_task' = IF t = "send" THEN "cancelled" ELSE send_task
  /\ UNCHANGED <<connect_pc, websocket, cancel_called, displayed, sent_lines, send_errors,
                 engVars, svrVars>>

\* line 79, the exit of the async with: the connection is closed and
\* connect() returns.  Whether the event loop runs the cancelled tasks
\* before that depends on whether closing suspends connect(): both orders
\* are behaviours of the model.
ConnectReturns ==
  /\ connect_pc = "exit"
  /\ websocket' = "closed"
  /\ connect_pc' = "returned"
  /\ UNCHANGED <<receive_task, send_task, cancel_called, displayed, sent_lines, send_errors,
                 engVars, svrVars>>

\* main(), line 595: asyncio.run cancels the tasks that are left and runs
\* them to their end before it returns
RunEnds ==
  /\ connect_pc = "returned"
  /\ connect_pc' = "exited"
  /\ receive_task' = IF receive_task = "pending" THEN "cancelled" ELSE receive_task
  /\ send_task' = IF send_task = "pending" THEN "cancelled" ELSE send_task
  /\ cancel_called' = cancel_called \cup {t \in ClientTasks : TaskState(t) = "pending"}
  /\ UNCHANGED <<websocket, displayed, sent_lines, send_errors, engVars, svrVars>>

SessionNext ==
  \/ \E ok \in BOOLEAN : ConnectCall(ok)
  \/ \E ok \in BOOLEAN : Authenticate(ok)
  \/ ReceiveFrame
  \/ ConnectionCloses
  \/ ReceiveEnds
  \/ SendLine
  \/ SendFails
  \/ \E how \in {"/quit", "interrupt"} : Quit(how)
  \/ WaitReturns
  \/ \E t \in ClientTasks : CancelDelivered(t)
  \/ ConnectReturns
  \/ RunEnds
SessionSpec == Init /\ [][SessionNext]_vars

\* C31: once connect() has returned, neither the receive task nor the send
\* task is still pending (running, or suspended at a read): the one that
\* finished is done and the other has been cancelled.
C31NoTaskAfterReturn ==
  connect_pc = "returned" => receive_task # "pending" /\ send_task # "pending"
\* C31, on the send loop: a send that raises ends the send loop
C31StepSendFailure == send_errors' > send_errors => send_task' # "pending"
C31SendFailureEndsLoop == [][C31StepSendFailure]_vars
\* what the code does ensure: both loops are started together, and from the
\* moment asyncio.wait has returned cancel() has been called on every task
\* that is still pending
C31CancelCalled ==
  /\ receive_task = "none" <=> send_task = "none"
  /\ connect_pc \in {"exit", "returned", "exited"}
       => \A t \in ClientTasks : TaskState(t) = "pending" => t \in cancel_called
  /\ connect_pc = "exited" => receive_task # "pending" /\ send_task # "pending"

====
